---------------------------- MODULE Spec2Model ----------------------------
(***************************************************************************)
(* Receptro.AI: the rule-based text-understanding core.                    *)
(*                                                                         *)
(*   interpret/interpret.py  IntentParser      (intent table, scoring,     *)
(*                                              parameters, confidence)    *)
(*   extract/extract.py      DocumentExtractor (field pattern cascades,    *)
(*                                              value clean-up)            *)
(*                                                                         *)
(* Texts are TLA+ strings; a character is a string of length 1.  Python's   *)
(* str methods and the regular expressions of the two tables are modelled  *)
(* by what they compute: a backtracking matcher over pattern trees that    *)
(* enumerates matches in sre's priority order.                             *)
(***************************************************************************)
EXTENDS Integers, Sequences, FiniteSets, TLC


(***************************************************************************)
(* Characters and Python str methods                                       *)
(***************************************************************************)
Char(s, i) == SubSeq(s, i, i)

UpperChars == "ABCDEFGHIJKLMNOPQRSTUVWXYZ"
LowerChars == "abcdefghijklmnopqrstuvwxyz"
DigitChars == "0123456789"

CharsOf(s) == { Char(s, i) : i \in 1..Len(s) }

UpperSet == CharsOf(UpperChars)
LowerSet == CharsOf(LowerChars)
DigitSet == CharsOf(DigitChars)
LetterSet == UpperSet \cup LowerSet

\* str.isspace / regex \s on ASCII text
WhiteSpace == {" ", "\t", "\n", "\r", "\f"}

LowerOf == [c \in UpperSet |->
              Char(LowerChars, CHOOSE i \in 1..Len(UpperChars) : Char(UpperChars, i) = c)]
UpperOf == [c \in LowerSet |->
              Char(UpperChars, CHOOSE i \in 1..Len(LowerChars) : Char(LowerChars, i) = c)]

ToLowerChar(c) == IF c \in UpperSet THEN LowerOf[c] ELSE c
ToUpperChar(c) == IF c \in LowerSet THEN UpperOf[c] ELSE c

\* Two characters outside ASCII, written with ASCII characters no text of the
\* model uses otherwise: U+0149 (n preceded by apostrophe, a lower-case letter)
\* and U+02BC (modifier letter apostrophe, a caseless letter).  str.lower()
\* leaves both as they are.
NPrecededByApostrophe == "~"
ModifierApostrophe == "="

\* the title-case mapping str.capitalize() applies to a first character: one
\* character for an ASCII letter, the two characters U+02BC "N" for U+0149
ToTitleChar(c) ==
  IF c = NPrecededByApostrophe THEN ModifierApostrophe \o "N" ELSE ToUpperChar(c)

\* int() of one decimal digit
DigitVal(c) == (CHOOSE i \in 1..Len(DigitChars) : Char(DigitChars, i) = c) - 1

RECURSIVE str_lower(_)
\* str.lower()
str_lower(s) == IF s = "" THEN "" ELSE ToLowerChar(Head(s)) \o str_lower(Tail(s))

RECURSIVE str_lstrip(_)
str_lstrip(s) == IF s # "" /\ Head(s) \in WhiteSpace THEN str_lstrip(Tail(s)) ELSE s

RECURSIVE str_rstrip(_)
str_rstrip(s) ==
  IF s # "" /\ Char(s, Len(s)) \in WhiteSpace
  THEN str_rstrip(SubSeq(s, 1, Len(s) - 1))
  ELSE s

\* str.strip()
str_strip(s) == str_rstrip(str_lstrip(s))

RECURSIVE str_find(_, _, _)
\* first index >= i at which sub occurs in s, 0 when it does not occur
str_find(sub, s, i) ==
  IF i + Len(sub) - 1 > Len(s) THEN 0
  ELSE IF SubSeq(s, i, i + Len(sub) - 1) = sub THEN i
  ELSE str_find(sub, s, i + 1)

\* the Python test  sub in s
str_contains(sub, s) == str_find(sub, s, 1) # 0

RECURSIVE str_split_ws(_, _)
\* str.split(): the maximal runs of non-whitespace, in order (cur = run being read)
str_split_ws(s, cur) ==
  IF s = "" THEN (IF cur = "" THEN <<>> ELSE <<cur>>)
  ELSE IF Head(s) \in WhiteSpace
       THEN (IF cur = "" THEN <<>> ELSE <<cur>>) \o str_split_ws(Tail(s), "")
       ELSE str_split_ws(Tail(s), cur \o Head(s))

RECURSIVE str_join(_, _)
\* sep.join(words)
str_join(sep, words) ==
  IF words = <<>> THEN ""
  ELSE IF Len(words) = 1 THEN words[1]
  ELSE words[1] \o sep \o str_join(sep, Tail(words))

\* a capitalize() that leaves the rest of the word as it is
str_capitalize_first(w) == IF w = "" THEN "" ELSE ToTitleChar(Head(w)) \o Tail(w)

\* str.capitalize(): first character title-cased, the rest lower-cased
str_capitalize(w) == IF w = "" THEN "" ELSE ToTitleChar(Head(w)) \o str_lower(Tail(w))

RECURSIVE str_title(_, _)
\* str.title(): a letter that follows a non-letter is upper-cased, every other
\* letter lower-cased (prev = whether the previous character is a letter)
str_title(s, prev) ==
  IF s = "" THEN ""
  ELSE LET c == Head(s)
       IN (IF prev THEN ToLowerChar(c) ELSE ToUpperChar(c))
          \o str_title(Tail(s), c \in LetterSet)

RECURSIVE str_filter(_, _)
\* the characters of s that are in keep, in order
str_filter(s, keep) ==
  IF s = "" THEN ""
  ELSE (IF Head(s) \in keep THEN Head(s) ELSE "") \o str_filter(Tail(s), keep)

RECURSIVE str_zfill(_, _)
\* str.zfill(n) of a digit string
str_zfill(s, n) == IF Len(s) >= n THEN s ELSE str_zfill("0" \o s, n)

RECURSIVE str_int(_)
\* int() of a non-empty digit string
str_int(s) ==
  IF Len(s) = 1 THEN DigitVal(s)
  ELSE 10 * str_int(SubSeq(s, 1, Len(s) - 1)) + DigitVal(Char(s, Len(s)))


(***************************************************************************)
(* Regular expressions (Python re, as the two tables use it)               *)
(*                                                                         *)
(* A pattern is a tree.  Run enumerates, in the order in which sre's        *)
(* backtracking tries them (alternatives left to right, greedy repeats     *)
(* longest first, lazy repeats shortest first), the states in which a      *)
(* match of the pattern started in state st can end.  A state is the next  *)
(* text position and the spans of capturing groups 1..3; <<0, 0>> is a     *)
(* group that has not taken part.  re.search takes the first state of the  *)
(* leftmost start position that has one.  The patterns of both tables are  *)
(* searched with re.IGNORECASE, so characters are compared after case      *)
(* folding; the one pattern searched without it holds no letter.           *)
(***************************************************************************)
\* the closure of a character set under IGNORECASE
FoldSet(S) == S \cup { ToLowerChar(c) : c \in S } \cup { ToUpperChar(c) : c \in S }

\* [...]: one character of the set
In(S) == [k |-> "in", cs |-> FoldSet(S)]
\* [^...]: one character not in the set (a line break included)
NotIn(S) == [k |-> "notin", cs |-> FoldSet(S)]
\* . without DOTALL: any character but a line break
AnyChar == NotIn({"\n"})
\* a literal string
Lit(s) == [k |-> "lit", s |-> str_lower(s)]
\* r1 r2 ... rn
Cat(rs) == [k |-> "cat", rs |-> rs]
\* r1|r2|...|rn
Alt(rs) == [k |-> "alt", rs |-> rs]
\* r{lo,hi}, greedy
Rep(r, lo, hi) ==
  [k |-> "rep", r |-> r, lo |-> lo, hi |-> hi, open |-> FALSE, greedy |-> TRUE]
\* r{lo,}, greedy: no upper limit
RepMin(r, lo) ==
  [k |-> "rep", r |-> r, lo |-> lo, hi |-> lo, open |-> TRUE, greedy |-> TRUE]
\* r{lo,}?, lazy: no upper limit
RepMinLazy(r, lo) ==
  [k |-> "rep", r |-> r, lo |-> lo, hi |-> lo, open |-> TRUE, greedy |-> FALSE]
\* (r): capturing group number n
Grp(n, r) == [k |-> "grp", n |-> n, r |-> r]
\* ^ under re.MULTILINE: the start of the text or just after a line break
Bol == [k |-> "bol"]

\* r*, r+, r?, r*?
Star(r) == RepMin(r, 0)
Plus(r) == RepMin(r, 1)
Opt(r) == Rep(r, 0, 1)
StarLazy(r) == RepMinLazy(r, 0)

\* \d, \s
Digit == In(DigitSet)
Space == In(WhiteSpace)

NoGroup == <<0, 0>>
StartState(i) == [pos |-> i, caps |-> <<NoGroup, NoGroup, NoGroup>>]

RECURSIVE Run(_, _, _)
RECURSIVE RunEach(_, _, _)
RECURSIVE RunCat(_, _, _, _)
RECURSIVE RunAlt(_, _, _, _)
RECURSIVE RunRep(_, _, _, _)
RECURSIVE RunRepEach(_, _, _, _)
RECURSIVE CloseGroup(_, _, _)

\* the states after r, for each state of sts in turn
RunEach(r, s, sts) ==
  IF sts = <<>> THEN <<>>
  ELSE Run(r, s, Head(sts)) \o RunEach(r, s, Tail(sts))

RunCat(rs, i, s, sts) ==
  IF i > Len(rs) \/ sts = <<>> THEN sts
  ELSE RunCat(rs, i + 1, s, RunEach(rs[i], s, sts))

RunAlt(rs, i, s, st) ==
  IF i > Len(rs) THEN <<>>
  ELSE Run(rs[i], s, st) \o RunAlt(rs, i + 1, s, st)

\* n iterations of r.r are done and ended in st
RunRep(r, s, st, n) ==
  LET more == IF r.open \/ n < r.hi THEN RunRepEach(r, s, Run(r.r, s, st), n + 1) ELSE <<>>
      stop == IF n >= r.lo THEN <<st>> ELSE <<>>
  IN IF r.greedy THEN more \o stop ELSE stop \o more

RunRepEach(r, s, sts, n) ==
  IF sts = <<>> THEN <<>>
  ELSE RunRep(r, s, Head(sts), n) \o RunRepEach(r, s, Tail(sts), n)

\* record the span of group n, opened at position from, in each state of sts
CloseGroup(n, from, sts) ==
  IF sts = <<>> THEN <<>>
  ELSE <<[Head(sts) EXCEPT !.caps[n] = <<from, Head(sts).pos>>]>>
       \o CloseGroup(n, from, Tail(sts))

Run(r, s, st) ==
  CASE r.k = "in" ->
         IF st.pos <= Len(s) /\ Char(s, st.pos) \in r.cs
         THEN <<[st EXCEPT !.pos = @ + 1]>> ELSE <<>>
    [] r.k = "notin" ->
         IF st.pos <= Len(s) /\ Char(s, st.pos) \notin r.cs
         THEN <<[st EXCEPT !.pos = @ + 1]>> ELSE <<>>
    [] r.k = "lit" ->
         IF /\ st.pos + Len(r.s) - 1 <= Len(s)
            /\ SubSeq(s, st.pos, st.pos + Len(r.s) - 1) = r.s
         THEN <<[st EXCEPT !.pos = @ + Len(r.s)]>> ELSE <<>>
    [] r.k = "cat" -> RunCat(r.rs, 1, s, <<st>>)
    [] r.k = "alt" -> RunAlt(r.rs, 1, s, st)
    [] r.k = "rep" -> RunRep(r, s, st, 0)
    [] r.k = "grp" -> CloseGroup(r.n, st.pos, Run(r.r, s, st))
    [] r.k = "bol" ->
         IF st.pos = 1 \/ Char(s, st.pos - 1) = "\n" THEN <<st>> ELSE <<>>

RECURSIVE CanStart(_, _, _)
RECURSIVE AnyCanStart(_, _, _, _)
\* whether some alternative of rs[i..] can start at position p
AnyCanStart(rs, i, s, p) ==
  IF i > Len(rs) THEN FALSE
  ELSE CanStart(rs[i], s, p) \/ AnyCanStart(rs, i + 1, s, p)

\* sre's search skips a start position whose first character cannot begin a
\* match: FALSE only if no match of r starts at position p (TRUE whenever the
\* first character does not decide it)
CanStart(r, s, p) ==
  CASE r.k = "in" -> p <= Len(s) /\ Char(s, p) \in r.cs
    [] r.k = "notin" -> p <= Len(s) /\ Char(s, p) \notin r.cs
    [] r.k = "lit" -> r.s = "" \/ (p <= Len(s) /\ Char(s, p) = Head(r.s))
    [] r.k = "cat" -> r.rs = <<>> \/ CanStart(r.rs[1], s, p)
    [] r.k = "alt" -> AnyCanStart(r.rs, 1, s, p)
    [] r.k = "rep" -> r.lo = 0 \/ CanStart(r.r, s, p)
    [] r.k = "grp" -> CanStart(r.r, s, p)
    [] r.k = "bol" -> TRUE

NoMatch == [ok |-> FALSE]

RECURSIVE SearchFrom(_, _, _)
SearchFrom(r, s, i) ==
  IF i > Len(s) + 1 THEN NoMatch
  ELSE LET ends == IF CanStart(r, s, i) THEN Run(r, s, StartState(i)) ELSE <<>>
       IN IF ends # <<>>
          THEN [ok |-> TRUE, start |-> i, end |-> ends[1].pos, caps |-> ends[1].caps]
          ELSE SearchFrom(r, s, i + 1)

\* re.search(pattern, s, re.IGNORECASE): the leftmost match, NoMatch for None.
\* The pattern's sets are closed under case and its literals lower-cased, so
\* the search runs on the lower-cased text; positions are those of s
re_search(r, s) == SearchFrom(r, str_lower(s), 1)

\* whether the pattern has a capturing group number n (its groups are 1..re.groups)
RECURSIVE HasGroup(_, _)
RECURSIVE AnyHasGroup(_, _, _)
AnyHasGroup(rs, i, n) ==
  IF i > Len(rs) THEN FALSE ELSE HasGroup(rs[i], n) \/ AnyHasGroup(rs, i + 1, n)

HasGroup(r, n) ==
  CASE r.k = "grp" -> r.n = n \/ HasGroup(r.r, n)
    [] r.k = "rep" -> HasGroup(r.r, n)
    [] r.k \in {"cat", "alt"} -> AnyHasGroup(r.rs, 1, n)
    [] OTHER -> FALSE

\* match.group(n) of a match m on s, for a group that took part
match_group(m, s, n) == SubSeq(s, m.caps[n][1], m.caps[n][2] - 1)


(***************************************************************************)
(* Python dict                                                             *)
(*                                                                         *)
(* A dict whose order matters (the two rule tables) is the sequence of its *)
(* items in insertion order, each a record with the key in field name.  A  *)
(* dict whose order is not read (parameters, the field maps) is a function *)
(* from its keys.                                                          *)
(***************************************************************************)
RECURSIVE KeyIndex(_, _, _)
\* the position of the key in the ordered dict d at or after i, 0 if absent
KeyIndex(d, key, i) ==
  IF i > Len(d) THEN 0
  ELSE IF d[i].name = key THEN i
  ELSE KeyIndex(d, key, i + 1)

RECURSIVE DictLiteral(_, _)
\* the dict display {k1: v1, ..., kn: vn}: the items are stored left to right,
\* and a key that is repeated keeps its first position and takes the last value
DictLiteral(items, d) ==
  IF items = <<>> THEN d
  ELSE LET at == KeyIndex(d, Head(items).name, 1)
       IN DictLiteral(Tail(items),
                      IF at = 0 THEN Append(d, Head(items))
                      ELSE [d EXCEPT ![at] = Head(items)])

EmptyDict == [x \in {} |-> ""]

\* d[key] = value on an unordered dict
DictSet(d, key, value) ==
  [x \in DOMAIN d \cup {key} |-> IF x = key THEN value ELSE d[x]]

(***************************************************************************)
(* interpret/interpret.py: IntentParser                                    *)
(***************************************************************************)
\* [a-zA-Z\s]
LetterSpace == In(LowerSet \cup UpperSet \cup WhiteSpace)
\* [^.!?]
NotStop == NotIn({".", "!", "?"})

\* the items of the dict display assigned to self.intent_patterns
IntentItems ==
  <<
     [name |-> "book_appointment",
      keywords |-> <<"book", "appointment", "schedule", "meeting",
      "reserve">>,
      params |-> <<
        \* (monday|tuesday|wednesday|thursday|friday|saturday|sunday|tomorrow|today|\d{1,2}(?:st|nd|rd|th)?)
        [name |-> "date", pattern |->
           Grp(1, Alt(<<Lit("monday"), Lit("tuesday"), Lit("wednesday"),
           Lit("thursday"), Lit("friday"), Lit("saturday"), Lit("sunday"),
           Lit("tomorrow"), Lit("today"), Cat(<<Rep(Digit, 1, 2),
           Opt(Alt(<<Lit("st"), Lit("nd"), Lit("rd"), Lit("th")>>))>>)>>))],
        \* (\d{1,2}(?::\d{2})?\s*(?:am|pm|o'clock))
        [name |-> "time", pattern |->
           Grp(1, Cat(<<Rep(Digit, 1, 2), Opt(Cat(<<Lit(":"), Rep(Digit, 2,
           2)>>)), Star(Space), Alt(<<Lit("am"), Lit("pm"),
           Lit("o'clock")>>)>>))],
        \* (consultation|checkup|meeting|call|session)
        [name |-> "service", pattern |->
           Grp(1, Alt(<<Lit("consultation"), Lit("checkup"), Lit("meeting"),
           Lit("call"), Lit("session")>>))]>>],
     [name |-> "get_weather",
      keywords |-> <<"weather", "forecast", "temperature", "rain", "sunny",
      "cloudy">>,
      params |-> <<
        \* in\s+([a-zA-Z\s]+)
        [name |-> "location", pattern |->
           Cat(<<Lit("in"), Plus(Space), Grp(1, Plus(LetterSpace))>>)],
        \* (today|tomorrow|this week|next week)
        [name |-> "time", pattern |->
           Grp(1, Alt(<<Lit("today"), Lit("tomorrow"), Lit("this week"),
           Lit("next week")>>))]>>],
     [name |-> "set_reminder",
      keywords |-> <<"remind", "reminder", "alert", "notify">>,
      params |-> <<
        \* to\s+([^.!?]+)
        [name |-> "task", pattern |->
           Cat(<<Lit("to"), Plus(Space), Grp(1, Plus(NotStop))>>)],
        \* (in\s+\d+\s+(?:minutes?|hours?|days?)|at\s+\d{1,2}(?::\d{2})?\s*(?:am|pm))
        [name |-> "time", pattern |->
           Grp(1, Alt(<<Cat(<<Lit("in"), Plus(Space), Plus(Digit),
           Plus(Space), Alt(<<Cat(<<Lit("minute"), Opt(Lit("s"))>>),
           Cat(<<Lit("hour"), Opt(Lit("s"))>>), Cat(<<Lit("day"),
           Opt(Lit("s"))>>)>>)>>), Cat(<<Lit("at"), Plus(Space), Rep(Digit, 1,
           2), Opt(Cat(<<Lit(":"), Rep(Digit, 2, 2)>>)), Star(Space),
           Alt(<<Lit("am"), Lit("pm")>>)>>)>>))]>>],
     [name |-> "play_music",
      keywords |-> <<"play", "music", "song", "artist", "album">>,
      params |-> <<
        \* play\s+([^.!?]+)
        [name |-> "song", pattern |->
           Cat(<<Lit("play"), Plus(Space), Grp(1, Plus(NotStop))>>)],
        \* by\s+([a-zA-Z\s]+)
        [name |-> "artist", pattern |->
           Cat(<<Lit("by"), Plus(Space), Grp(1, Plus(LetterSpace))>>)]>>],
     [name |-> "get_directions",
      keywords |-> <<"directions", "navigate", "route", "way to",
      "how to get">>,
      params |-> <<
        \* to\s+([^.!?]+)
        [name |-> "destination", pattern |->
           Cat(<<Lit("to"), Plus(Space), Grp(1, Plus(NotStop))>>)],
        \* from\s+([a-zA-Z\s]+)
        [name |-> "from", pattern |->
           Cat(<<Lit("from"), Plus(Space), Grp(1, Plus(LetterSpace))>>)]>>],
     [name |-> "general_question",
      keywords |-> <<"what", "how", "when", "where", "why", "tell me",
      "explain">>,
      params |-> <<
        \* (?:what|how|when|where|why).*?([^.!?]+)
        [name |-> "topic", pattern |->
           Cat(<<Alt(<<Lit("what"), Lit("how"), Lit("when"), Lit("where"),
           Lit("why")>>), StarLazy(AnyChar), Grp(1, Plus(NotStop))>>)]>>]
  >>

\* IntentParser.__init__ on the items of its dict display: the object built
\* (the method has no statement that raises)
IntentParser_init(items) ==
  [raised |-> FALSE, intent_patterns |-> DictLiteral(items, <<>>)]

RECURSIVE KeywordScoreWords(_, _, _)
\* a score that counts a keyword only where it is a whole word of the text
KeywordScoreWords(keywords, i, text_lower) ==
  IF i > Len(keywords) THEN 0
  ELSE (IF \E k \in 1..Len(str_split_ws(text_lower, "")) :
             str_split_ws(text_lower, "")[k] = keywords[i]
        THEN 1 ELSE 0)
       + KeywordScoreWords(keywords, i + 1, text_lower)

RECURSIVE KeywordScore(_, _, _)
\* the loop of lines 77-80: the number of keywords[i..] that occur in text_lower
KeywordScore(keywords, i, text_lower) ==
  IF i > Len(keywords) THEN 0
  ELSE (IF str_contains(keywords[i], text_lower) THEN 1 ELSE 0)
       + KeywordScore(keywords, i + 1, text_lower)

\* intent_scores, by position in the table
IntentScores(table, text_lower) ==
  [i \in 1..Len(table) |-> KeywordScore(table[i].keywords, 1, text_lower)]

\* a max() that takes the last of several largest keys
MaxReplacesOnTie(cand, best) == cand >= best

\* whether max() replaces its current best, of score best, by a later key of
\* score cand: only a strictly larger one
MaxReplaces(cand, best) == cand > best

RECURSIVE MaxByScore(_, _, _)
\* max(intent_scores, key=intent_scores.get): the keys are visited in dict
\* order from i on; best is the position of the best so far
MaxByScore(scores, i, best) ==
  IF i > Len(scores) THEN best
  ELSE MaxByScore(scores, i + 1,
                  IF MaxReplaces(scores[i], scores[best]) THEN i ELSE best)

\* max(intent_scores.values())
MaxScore(scores) == scores[MaxByScore(scores, 2, 1)]

\* line 84 without its test of the largest score
BestIntentUntested(scores) == MaxByScore(scores, 2, 1)

\* line 84: the position of best_intent in the table, 0 for "unknown"
BestIntent(scores) == IF MaxScore(scores) > 0 THEN MaxByScore(scores, 2, 1) ELSE 0

\* the name of the intent at a position, "unknown" for 0
IntentName(table, best) == IF best = 0 THEN "unknown" ELSE table[best].name

\* a parameter value cleaned as a field value is: noise characters removed
ParamValueCleaned(pattern, m, text_lower) ==
  IF ~HasGroup(pattern, 1) THEN [raised |-> TRUE, exc |-> "IndexError"]
  ELSE IF m.caps[1] = NoGroup THEN [raised |-> TRUE, exc |-> "AttributeError"]
  ELSE [raised |-> FALSE,
        value |-> LET v == match_group(m, text_lower, 1)
                  IN str_strip(str_filter(v, CharsOf(v) \ {"|", "@", "#", "$", "%", "^", "&", "*"}))]

\* lines 92-93 for one parameter whose pattern matched with m: match.group(1)
\* raises IndexError when the pattern has no group 1, and .strip() raises
\* AttributeError on the None of a group that took no part
ParamValue(pattern, m, text_lower) ==
  IF ~HasGroup(pattern, 1) THEN [raised |-> TRUE, exc |-> "IndexError"]
  ELSE IF m.caps[1] = NoGroup THEN [raised |-> TRUE, exc |-> "AttributeError"]
  ELSE [raised |-> FALSE, value |-> str_strip(match_group(m, text_lower, 1))]

RECURSIVE ExtractParamsAlways(_, _, _, _)
\* a loop that records an empty value for a pattern that did not match
ExtractParamsAlways(params, i, text_lower, acc) ==
  IF i > Len(params) THEN [raised |-> FALSE, parameters |-> acc]
  ELSE LET m == re_search(params[i].pattern, text_lower)
       IN ExtractParamsAlways(params, i + 1, text_lower,
            DictSet(acc, params[i].name,
                    IF m.ok THEN str_strip(match_group(m, text_lower, 1)) ELSE ""))

RECURSIVE ExtractParamsFirstOnly(_, _, _, _)
\* a loop that ends at the first parameter whose pattern matched
ExtractParamsFirstOnly(params, i, text_lower, acc) ==
  IF i > Len(params) THEN [raised |-> FALSE, parameters |-> acc]
  ELSE LET m == re_search(params[i].pattern, text_lower)
       IN IF ~m.ok THEN ExtractParamsFirstOnly(params, i + 1, text_lower, acc)
          ELSE LET v == ParamValue(params[i].pattern, m, text_lower)
               IN IF v.raised THEN v
                  ELSE [raised |-> FALSE,
                        parameters |-> DictSet(acc, params[i].name, v.value)]

RECURSIVE ExtractParams(_, _, _, _)
\* the loop of lines 90-93 from parameter i on; acc is parameters so far
ExtractParams(params, i, text_lower, acc) ==
  IF i > Len(params) THEN [raised |-> FALSE, parameters |-> acc]
  ELSE LET m == re_search(params[i].pattern, text_lower)
       IN IF ~m.ok THEN ExtractParams(params, i + 1, text_lower, acc)
          ELSE LET v == ParamValue(params[i].pattern, m, text_lower)
               IN IF v.raised THEN v
                  ELSE ExtractParams(params, i + 1, text_lower,
                                     DictSet(acc, params[i].name, v.value))

\* a round() that truncates
Round2Down(num, den) == (100 * num) \div den

\* round(num / den, 2) in hundredths, for 0 <= num and 0 < den: the nearest
\* hundredth, a tie going to the even one
Round2(num, den) ==
  LET q == (100 * num) \div den
      r == (100 * num) % den
  IN IF 2 * r > den \/ (2 * r = den /\ q % 2 = 1) THEN q + 1 ELSE q

\* lines 96 and 101, in hundredths
Confidence(table, scores, best) ==
  IF best = 0 THEN 0 ELSE Round2(scores[best], Len(table[best].keywords))

\* lines 84-103, from the scores on: the dict returned, or the exception raised
ChooseAndReturn(table, text, text_lower, scores) ==
  LET best_intent == IntentName(table, BestIntent(scores))
      best == IF best_intent = "unknown" THEN 0 ELSE BestIntent(scores)
      ps == IF best # 0
            THEN ExtractParams(table[best].params, 1, text_lower, EmptyDict)
            ELSE [raised |-> FALSE, parameters |-> EmptyDict]
  IN IF ps.raised THEN ps
     ELSE [raised |-> FALSE,
           intent |-> best_intent,
           parameters |-> ps.parameters,
           confidence |-> Confidence(table, scores, best),
           original_text |-> text]

\* IntentParser.extract_intent(text) on the table self.intent_patterns: the
\* dict returned, or the exception raised
extract_intent(table, text) ==
  LET text_lower == str_strip(str_lower(text))
      scores == IntentScores(table, text_lower)
  IN ChooseAndReturn(table, text, text_lower, scores)

\* dict.get(key, default)
dict_get(d, key, default) == IF key \in DOMAIN d THEN d[key] ELSE default

\* the truth value of params.get(key): of a missing key (None) and of the
\* empty str it is false
Truthy(params, key) == dict_get(params, key, "") # ""

\* a clause that is written whether its parameter is present or not
ClauseAlways(prefix, params, key) == prefix \o dict_get(params, key, "")

\* {prefix + params.get(key, '') if params.get(key) else ''}
Clause(prefix, params, key) ==
  IF Truthy(params, key) THEN prefix \o dict_get(params, key, "") ELSE ""

\* {' ' + params.get('song', 'music') if params.get('song') else ' music'}
SongClause(params) ==
  IF Truthy(params, "song") THEN " " \o dict_get(params, "song", "music") ELSE " music"

\* lines 160-168: the dict display responses; every template is evaluated,
\* whatever the intent
Responses(params) ==
  DictLiteral(
    <<[name |-> "book_appointment",
       value |-> "Okay, I've booked your appointment" \o Clause(" for ", params, "date")
                 \o Clause(" at ", params, "time") \o "."],
      [name |-> "get_weather",
       value |-> "The weather" \o Clause(" in ", params, "location")
                 \o " is looking good today."],
      [name |-> "set_reminder",
       value |-> "I'll remind you" \o Clause(" to ", params, "task")
                 \o Clause(" ", params, "time") \o "."],
      [name |-> "play_music",
       value |-> "Playing" \o SongClause(params) \o Clause(" by ", params, "artist") \o "."],
      [name |-> "get_directions",
       value |-> "Here are directions" \o Clause(" to ", params, "destination") \o "."],
      [name |-> "general_question", value |-> "Let me help you with that question."],
      [name |-> "unknown",
       value |-> "I'm not sure how to help with that, but I'm here to assist you."]>>,
    <<>>)

\* a line 157 whose default is an intent of the table
IntentOfDefaultQuestion(intent_result) ==
  dict_get(intent_result, "intent", "general_question")

\* line 157
IntentOf(intent_result) == dict_get(intent_result, "intent", "unknown")

\* line 158
ParamsOf(intent_result) == dict_get(intent_result, "parameters", EmptyDict)

\* responses[intent]: KeyError for an intent without a template
ResponseSubscript(responses, intent) ==
  LET at == KeyIndex(responses, intent, 1)
  IN IF at = 0 THEN [raised |-> TRUE, exc |-> "KeyError"]
     ELSE [raised |-> FALSE, value |-> responses[at].value]

\* line 170: responses.get(intent, responses["unknown"])
ResponseGet(responses, intent) ==
  LET at == KeyIndex(responses, intent, 1)
      unknown == KeyIndex(responses, "unknown", 1)
  IN [raised |-> FALSE,
      value |-> IF at = 0 THEN responses[unknown].value ELSE responses[at].value]

\* IntentParser.generate_response(intent_result), for a dict intent_result
\* whose "intent" is a str and whose "parameters" is a dict of str
generate_response(intent_result) ==
  ResponseGet(Responses(ParamsOf(intent_result)), IntentOf(intent_result))

(***************************************************************************)
(* extract/extract.py: DocumentExtractor                                   *)
(***************************************************************************)
\* [:\s]
ColonSpace == In(WhiteSpace \cup {":"})
\* \d{1,2}[-/]\d{1,2}[-/]\d{lo,hi}
DateToken(lo, hi) ==
  Cat(<<Rep(Digit, 1, 2), In({"-", "/"}), Rep(Digit, 1, 2), In({"-", "/"}),
        Rep(Digit, lo, hi)>>)

\* the items of the dict display assigned to self.field_patterns
FieldItems ==
  <<
     [name |-> "name",
      patterns |-> <<
        \* name[:\s]+([a-zA-Z\s,]+)
        Cat(<<Lit("name"), Plus(ColonSpace), Grp(1,
        Plus(In(LowerSet \cup UpperSet \cup WhiteSpace \cup {","})))>>),
        \* full\s+name[:\s]+([a-zA-Z\s,]+)
        Cat(<<Lit("full"), Plus(Space), Lit("name"), Plus(ColonSpace), Grp(1,
        Plus(In(LowerSet \cup UpperSet \cup WhiteSpace \cup {","})))>>),
        \* ^([A-Z][a-zA-Z]+\s+[A-Z][a-zA-Z]+)
        Cat(<<Bol, Grp(1, Cat(<<In(UpperSet),
        Plus(In(LowerSet \cup UpperSet)), Plus(Space), In(UpperSet),
        Plus(In(LowerSet \cup UpperSet))>>))>>)>>],
     [name |-> "date_of_birth",
      patterns |-> <<
        \* (?:date\s+of\s+birth|dob|birth\s+date)[:\s]+(\d{1,2}[-/]\d{1,2}[-/]\d{2,4})
        Cat(<<Alt(<<Cat(<<Lit("date"), Plus(Space), Lit("of"), Plus(Space),
        Lit("birth")>>), Lit("dob"), Cat(<<Lit("birth"), Plus(Space),
        Lit("date")>>)>>), Plus(ColonSpace), Grp(1, DateToken(2, 4))>>),
        \* born[:\s]+(\d{1,2}[-/]\d{1,2}[-/]\d{2,4})
        Cat(<<Lit("born"), Plus(ColonSpace), Grp(1, DateToken(2, 4))>>),
        \* (\d{1,2}[-/]\d{1,2}[-/]\d{4})
        Grp(1, DateToken(4, 4))>>],
     [name |-> "id_number",
      patterns |-> <<
        \* (?:id|license|card)\s*(?:number|no|#)[:\s]*([A-Z0-9-]+)
        Cat(<<Alt(<<Lit("id"), Lit("license"), Lit("card")>>), Star(Space),
        Alt(<<Lit("number"), Lit("no"), Lit("#")>>), Star(ColonSpace), Grp(1,
        Plus(In(UpperSet \cup DigitSet \cup {"-"})))>>),
        \* (?:number|no|#)[:\s]*([A-Z0-9-]+)
        Cat(<<Alt(<<Lit("number"), Lit("no"), Lit("#")>>), Star(ColonSpace),
        Grp(1, Plus(In(UpperSet \cup DigitSet \cup {"-"})))>>),
        \* ([A-Z]{1,3}\d{6,12})
        Grp(1, Cat(<<Rep(In(UpperSet), 1, 3), Rep(Digit, 6, 12)>>))>>],
     [name |-> "address",
      patterns |-> <<
        \* address[:\s]+([^\n]+)
        Cat(<<Lit("address"), Plus(ColonSpace), Grp(1, Plus(NotIn({"\n"})))>>),
        \* (?:street|addr)[:\s]+([^\n]+)
        Cat(<<Alt(<<Lit("street"), Lit("addr")>>), Plus(ColonSpace), Grp(1,
        Plus(NotIn({"\n"})))>>),
        \* (\d+\s+[A-Za-z\s]+(?:street|st|avenue|ave|road|rd|lane|ln|drive|dr))
        Grp(1, Cat(<<Plus(Digit), Plus(Space), Plus(LetterSpace),
        Alt(<<Lit("street"), Lit("st"), Lit("avenue"), Lit("ave"),
        Lit("road"), Lit("rd"), Lit("lane"), Lit("ln"), Lit("drive"),
        Lit("dr")>>)>>))>>],
     [name |-> "phone",
      patterns |-> <<
        \* (?:phone|tel|mobile)[:\s]*([0-9\-\(\)\s]+)
        Cat(<<Alt(<<Lit("phone"), Lit("tel"), Lit("mobile")>>),
        Star(ColonSpace), Grp(1, Plus(In(DigitSet \cup WhiteSpace \cup {"-",
        "(", ")"})))>>),
        \* (\(\d{3}\)\s*\d{3}-\d{4})
        Grp(1, Cat(<<Lit("("), Rep(Digit, 3, 3), Lit(")"), Star(Space),
        Rep(Digit, 3, 3), Lit("-"), Rep(Digit, 4, 4)>>)),
        \* (\d{3}-\d{3}-\d{4})
        Grp(1, Cat(<<Rep(Digit, 3, 3), Lit("-"), Rep(Digit, 3, 3), Lit("-"),
        Rep(Digit, 4, 4)>>))>>],
     [name |-> "email",
      patterns |-> <<
        \* (?:email|e-mail)[:\s]*([a-zA-Z0-9._%+-]+@[a-zA-Z0-9.-]+\.[a-zA-Z]{2,})
        Cat(<<Alt(<<Lit("email"), Lit("e-mail")>>), Star(ColonSpace), Grp(1,
        Cat(<<Plus(In(LowerSet \cup UpperSet \cup DigitSet \cup {".", "_",
        "%", "+", "-"})), Lit("@"),
        Plus(In(LowerSet \cup UpperSet \cup DigitSet \cup {".", "-"})),
        Lit("."), RepMin(In(LowerSet \cup UpperSet), 2)>>))>>),
        \* ([a-zA-Z0-9._%+-]+@[a-zA-Z0-9.-]+\.[a-zA-Z]{2,})
        Grp(1, Cat(<<Plus(In(LowerSet \cup UpperSet \cup DigitSet \cup {".",
        "_", "%", "+", "-"})), Lit("@"),
        Plus(In(LowerSet \cup UpperSet \cup DigitSet \cup {".", "-"})),
        Lit("."), RepMin(In(LowerSet \cup UpperSet), 2)>>))>>],
     [name |-> "expiry_date",
      patterns |-> <<
        \* (?:expires?|exp|expiry)[:\s]*(\d{1,2}[-/]\d{1,2}[-/]\d{2,4})
        Cat(<<Alt(<<Cat(<<Lit("expire"), Opt(Lit("s"))>>), Lit("exp"),
        Lit("expiry")>>), Star(ColonSpace), Grp(1, DateToken(2, 4))>>),
        \* valid\s+until[:\s]*(\d{1,2}[-/]\d{1,2}[-/]\d{2,4})
        Cat(<<Lit("valid"), Plus(Space), Lit("until"), Star(ColonSpace),
        Grp(1, DateToken(2, 4))>>)>>],
     [name |-> "issuer",
      patterns |-> <<
        \* issued\s+by[:\s]*([A-Za-z\s]+)
        Cat(<<Lit("issued"), Plus(Space), Lit("by"), Star(ColonSpace), Grp(1,
        Plus(LetterSpace))>>),
        \* (?:state|country|authority)[:\s]*([A-Za-z\s]+)
        Cat(<<Alt(<<Lit("state"), Lit("country"), Lit("authority")>>),
        Star(ColonSpace), Grp(1, Plus(LetterSpace))>>)>>]
  >>

\* DocumentExtractor.__init__ on the items of its dict display: the object built
\* (the method has no statement that raises)
DocumentExtractor_init(items) ==
  [raised |-> FALSE, field_patterns |-> DictLiteral(items, <<>>)]

RECURSIVE str_split_char(_, _, _)
\* s.split(c) for a single character c (cur = the piece being read)
str_split_char(s, c, cur) ==
  IF s = "" THEN <<cur>>
  ELSE IF Head(s) = c THEN <<cur>> \o str_split_char(Tail(s), c, "")
  ELSE str_split_char(Tail(s), c, cur \o Head(s))

RECURSIVE re_sub_spaces(_, _)
\* re.sub(r'\s+', ' ', s): every maximal run of whitespace becomes one space
\* (in_run = the previous character was whitespace)
re_sub_spaces(s, in_run) ==
  IF s = "" THEN ""
  ELSE IF Head(s) \in WhiteSpace
       THEN (IF in_run THEN "" ELSE " ") \o re_sub_spaces(Tail(s), TRUE)
       ELSE Head(s) \o re_sub_spaces(Tail(s), FALSE)

\* a view of the text that keeps its line breaks
FullTextWithBreaks(text) == str_lower(text)

\* lines 142-143: full_text
FullText(text) == str_lower(str_join(" ", str_split_char(text, "\n", "")))

\* lines 150-153 for a pattern of the field that matched with m
FieldValue(field_name, pattern, m, full_text) ==
  IF ~HasGroup(pattern, 1) THEN [raised |-> TRUE, exc |-> "IndexError"]
  ELSE IF m.caps[1] = NoGroup THEN [raised |-> TRUE, exc |-> "AttributeError"]
  ELSE LET value == re_sub_spaces(str_strip(match_group(m, full_text, 1)), FALSE)
       IN [raised |-> FALSE,
           found |-> TRUE,
           value |-> IF field_name = "name" THEN str_title(value, FALSE) ELSE value]

\* a pattern loop without its break
NoBreakOnMatch == FALSE

\* line 155: whether the pattern loop of a field ends at a pattern that matched
BreakOnMatch == TRUE

RECURSIVE FieldCascade(_, _, _, _, _)
\* the loop of lines 147-155 from pattern i on; last is the value recorded so far
FieldCascade(field_name, patterns, i, full_text, last) ==
  IF i > Len(patterns) THEN last
  ELSE LET m == re_search(patterns[i], full_text)
       IN IF ~m.ok THEN FieldCascade(field_name, patterns, i + 1, full_text, last)
          ELSE LET v == FieldValue(field_name, patterns[i], m, full_text)
               IN IF v.raised \/ BreakOnMatch THEN v
                  ELSE FieldCascade(field_name, patterns, i + 1, full_text, v)

NotFound == [raised |-> FALSE, found |-> FALSE]

RECURSIVE FieldLoopUntilFound(_, _, _, _)
\* a field loop that the break of line 155 leaves too: it ends at the first
\* field found
FieldLoopUntilFound(table, i, full_text, acc) ==
  IF i > Len(table) THEN [raised |-> FALSE, fields |-> acc]
  ELSE LET v == FieldCascade(table[i].name, table[i].patterns, 1, full_text, NotFound)
       IN IF v.raised THEN v
          ELSE IF v.found
               THEN [raised |-> FALSE, fields |-> DictSet(acc, table[i].name, v.value)]
               ELSE FieldLoopUntilFound(table, i + 1, full_text, acc)

RECURSIVE FieldLoop(_, _, _, _)
\* the loop of lines 146-155 from field i on; acc is extracted_fields so far
FieldLoop(table, i, full_text, acc) ==
  IF i > Len(table) THEN [raised |-> FALSE, fields |-> acc]
  ELSE LET v == FieldCascade(table[i].name, table[i].patterns, 1, full_text, NotFound)
       IN IF v.raised THEN v
          ELSE FieldLoop(table, i + 1, full_text,
                         IF v.found THEN DictSet(acc, table[i].name, v.value) ELSE acc)

\* the calls of extract_structured_fields a single caller has made, in the
\* order they returned: of each its text and what it returned
VARIABLE log

\* a dict that is kept from the call before: it starts as that call returned it
LeftoverFields ==
  IF log = <<>> \/ log[Len(log)].ret.raised THEN EmptyDict ELSE log[Len(log)].ret.fields

\* line 141: extracted_fields = {}, a new dict in every call
NewFields == EmptyDict

\* lines 138-155: extracted_fields as it is handed to the clean-up at line 158
ExtractedFields(table, text) ==
  IF text = "" THEN [raised |-> FALSE, fields |-> EmptyDict]
  ELSE FieldLoop(table, 1, FullText(text), NewFields)

\* line 169: the characters removed as OCR artifacts
NoiseChars == {"|", "@", "#", "$", "%", "^", "&", "*"}

\* a noise rule that spares the @ of an address
StripNoiseButAt(value) == str_filter(value, CharsOf(value) \ (NoiseChars \ {"@"}))

\* re.sub(r'[|@#$%^&*]', '', value)
StripNoise(value) == str_filter(value, CharsOf(value) \ NoiseChars)

\* (\d{1,2})[-/](\d{1,2})[-/](\d{2,4})
DateTriple ==
  Cat(<<Grp(1, Rep(Digit, 1, 2)), In({"-", "/"}), Grp(2, Rep(Digit, 1, 2)),
        In({"-", "/"}), Grp(3, Rep(Digit, 2, 4))>>)

\* line 178: whether a year token gets a century
NeedsCentury(year) == Len(year) = 2

\* a pivot that counts 50 to this century
WithCenturyPivot51(year) == IF str_int(year) <= 50 THEN "20" \o year ELSE "19" \o year

\* line 179
WithCentury(year) == IF str_int(year) < 50 THEN "20" \o year ELSE "19" \o year

\* a date rule that rejects a value without a numeric triple
NormalizeDateOrNothing(value) ==
  LET date_match == re_search(DateTriple, value)
  IN IF ~date_match.ok THEN ""
     ELSE LET month == match_group(date_match, value, 1)
              day == match_group(date_match, value, 2)
              year == match_group(date_match, value, 3)
              year4 == IF NeedsCentury(year) THEN WithCentury(year) ELSE year
          IN str_zfill(month, 2) \o "/" \o str_zfill(day, 2) \o "/" \o year4

\* lines 175-180
NormalizeDate(value) ==
  LET date_match == re_search(DateTriple, value)
  IN IF ~date_match.ok THEN value
     ELSE LET month == match_group(date_match, value, 1)
              day == match_group(date_match, value, 2)
              year == match_group(date_match, value, 3)
              year4 == IF NeedsCentury(year) THEN WithCentury(year) ELSE year
          IN str_zfill(month, 2) \o "/" \o str_zfill(day, 2) \o "/" \o year4

\* a phone rule that also rewrites a value of more than 10 digits
NormalizePhoneFrom10(value) ==
  LET phone_digits == str_filter(value, DigitSet)
  IN IF Len(phone_digits) >= 10
     THEN "(" \o SubSeq(phone_digits, 1, 3) \o ") " \o SubSeq(phone_digits, 4, 6)
          \o "-" \o SubSeq(phone_digits, 7, 10)
     ELSE value

\* lines 184-186
NormalizePhone(value) ==
  LET phone_digits == str_filter(value, DigitSet)
  IN IF Len(phone_digits) = 10
     THEN "(" \o SubSeq(phone_digits, 1, 3) \o ") " \o SubSeq(phone_digits, 4, 6)
          \o "-" \o SubSeq(phone_digits, 7, 10)
     ELSE value

RECURSIVE CapitalizeEach(_)
CapitalizeEach(words) ==
  IF words = <<>> THEN <<>>
  ELSE <<str_capitalize(Head(words))>> \o CapitalizeEach(Tail(words))

\* line 190
NormalizeName(value) == str_join(" ", CapitalizeEach(str_split_ws(value, "")))

\* a test that keeps values of length 2
KeepValueFrom2(value) == Len(value) >= 2

\* line 192: only non-trivial values are kept
KeepValue(value) == Len(value) > 2

\* the body of the loop of lines 166-193 for one item: whether the item is kept
\* and with which value
CleanValue(key, value) ==
  IF ~(value # "" /\ Len(str_strip(value)) > 0) THEN [keep |-> FALSE]
  ELSE LET stripped == str_strip(StripNoise(value))
           cleaned == CASE key \in {"date_of_birth", "expiry_date"} -> NormalizeDate(stripped)
                        [] key = "phone" -> NormalizePhone(stripped)
                        [] key = "name" -> NormalizeName(stripped)
                        [] OTHER -> stripped
       IN IF KeepValue(cleaned) THEN [keep |-> TRUE, value |-> cleaned]
          ELSE [keep |-> FALSE]

\* DocumentExtractor._clean_extracted_fields(fields)
clean_extracted_fields(fields) ==
  LET kept == { key \in DOMAIN fields : CleanValue(key, fields[key]).keep }
  IN [key \in kept |-> CleanValue(key, fields[key]).value]

\* lines 158-160 on extracted_fields, or the exception of the loop before
ReturnCleaned(extracted) ==
  IF extracted.raised THEN extracted
  ELSE [raised |-> FALSE, fields |-> clean_extracted_fields(extracted.fields)]

\* DocumentExtractor.extract_structured_fields(text) on the table
\* self.field_patterns: the dict returned, or the exception raised
extract_structured_fields(table, text) == ReturnCleaned(ExtractedFields(table, text))

(***************************************************************************)
(* The state machine: one parser and one extractor, called synchronously   *)
(***************************************************************************)
VARIABLES
  config,            \* the items of the two dict displays the objects were built from
  parser,            \* the IntentParser object: its attribute intent_patterns
  extractor,         \* the DocumentExtractor object: its attribute field_patterns
  op,                \* "idle", or the method whose call has just returned
  text,              \* the text argument of that call
  extracted_fields,  \* the dict handed to _clean_extracted_fields in that call
  ret,               \* what the call returned or raised
  intent_result,     \* the dict handed to generate_response in that call
  calls              \* per thread: the frame of its call on the shared objects

\* orchestrator/process.py and web_server.py
VARIABLES
  runs,                \* per file: the frame of processor.process_file(file_path)
  processing_status,   \* the module-level dict of web_server.py, keyed by file_id
  processing_results,  \* the module-level dict of web_server.py, keyed by file_id
  uploads,             \* per file_id: the request to /upload that made it
  workers,             \* per file_id: the thread running process_file_async
  seen                 \* per file_id: what the client was answered on /status and /result

service == <<runs, processing_status, processing_results, uploads, workers, seen>>

vars ==
  <<config, parser, extractor, op, text, extracted_fields, ret, intent_result, calls, log,
    service>>

\* the longest input, in words for extract_intent and in lines for
\* extract_structured_fields
MaxWords == 2
MaxLines == 2

RECURSIVE TextsUpTo(_, _, _)
\* the texts of at most n pieces, joined by sep
TextsUpTo(pieces, sep, n) ==
  IF n = 0 THEN {""}
  ELSE LET shorter == TextsUpTo(pieces, sep, n - 1)
       IN shorter \cup { IF t = "" THEN w ELSE t \o sep \o w : t \in shorter, w \in pieces }

IntentWords ==
  {"Book", "meeting", "weather", "rain", "reminder", "what", "how to get",
   "Monday", "at 2pm", "in Paris", "notebook", "  "}

IntentTexts == TextsUpTo(IntentWords, " ", MaxWords)

\* the sentences of test_pipeline.py, lines 22-29
TestCases ==
  {"I want to book an appointment for Monday at 2pm",
   "What's the weather like today?",
   "Remind me to call John tomorrow",
   "Play some music by The Beatles",
   "How do I get to the airport?",
   "Tell me about machine learning"}

FieldLines ==
  {"Name: john doe", "Al Roe", "DOB: 5-21-90", "born 5/21/08", "exp 1-2-199",
   "12/25/2020", "tel(123)456-7890", "ID No: A1", "e-mail a@b.co", "state CA"}

FieldTexts == TextsUpTo(FieldLines, "\n", MaxLines)

\* one-item dicts for _clean_extracted_fields: dates of every kind of year
\* token under the two date keys, and other values under every key
DateValues ==
  { m \o sep \o d \o sep \o y :
      m \in {"5", "12"}, d \in {"1", "21"}, sep \in {"-", "/"},
      y \in { y1 \o y2 : y1 \in DigitSet, y2 \in {"0", "9"} } \cup {"199", "1990", "2008"} }

OtherValues ==
  {"1234567890", "(123) 456-7890", "1-123-456-7890", "555-1234", "john doe", "JOHN  o'neil", "ab",
   "a|b", "@#", "", "  ", " x@y.org ", "5-21-90", "dob 5-21-08.", "no date", "1 2", "May @5", "5-21", "5--21-90",
   NPrecededByApostrophe \o "ab"}

FieldNames == { FieldItems[i].name : i \in 1..Len(FieldItems) }

CleanInputs ==
  { DictSet(EmptyDict, key, v) : key \in {"date_of_birth", "expiry_date"}, v \in DateValues }
  \cup { DictSet(EmptyDict, key, v) : key \in FieldNames, v \in OtherValues }

\* the most parameters of a dict handed to generate_response
MaxParams == 2

\* the parameter names the templates read, and one the templates do not
ParamNames ==
  {"date", "time", "location", "task", "song", "artist", "destination", "service"}

\* a value for each parameter name, as the patterns capture them
SampleValue(name) ==
  CASE name = "date" -> "monday"
    [] name = "time" -> "2pm"
    [] name = "location" -> "paris"
    [] name = "task" -> "call john"
    [] name = "song" -> "yesterday"
    [] name = "artist" -> "the beatles"
    [] name = "destination" -> "the airport"
    [] OTHER -> "checkup"

\* parameters of at most MaxParams names, each with its value or the empty str
ParamDicts ==
  UNION { { [k \in S |-> IF k \in E THEN "" ELSE SampleValue(k)] : E \in SUBSET S } :
          S \in { T \in SUBSET ParamNames : Cardinality(T) <= MaxParams } }

\* the intents of the table, "unknown", and a name without a template
IntentNames ==
  { IntentItems[i].name : i \in 1..Len(IntentItems) } \cup {"unknown", "greeting"}

\* sentences whose parameters are short or hold noise characters
ParameterTexts == {"Book 5", "Remind me to #1", "Play a|b by x"}

\* the dict extract_intent returns (lines 98-103)
ResultDict(r) ==
  [intent |-> r.intent, parameters |-> r.parameters, confidence |-> r.confidence,
   original_text |-> r.original_text]

\* dicts for generate_response: with and without the keys "intent" and
\* "parameters", and the results of extract_intent on the sentences of
\* test_pipeline.py
IntentResults ==
  { [intent |-> i, parameters |-> d] : i \in IntentNames, d \in ParamDicts }
  \cup { [parameters |-> d] : d \in ParamDicts }
  \cup { [intent |-> i] : i \in IntentNames }
  \cup { EmptyDict }
  \cup { ResultDict(extract_intent(DictLiteral(IntentItems, <<>>), t)) : t \in TestCases }

NoReturn == [raised |-> FALSE]

\* the threads that call the one parser and the one extractor
MaxThreads == 2
Threads == 1..MaxThreads

\* the calls of extract_structured_fields the log keeps
MaxLogged == 2

ThreadIntentTexts == {"Book at 2pm", "rain in Paris"}
ThreadFieldTexts ==
  {"", "DOB: 5-21-90", "exp 1-2-199", "Name: john doe\ntel(123)456-7890"}

\* the frame of a thread that is in no call
NoFrame ==
  [pc |-> "idle", text |-> "", norm |-> "", scores |-> <<>>, fields |-> EmptyDict,
   ret |-> NoReturn]

\* the rule configuration the repository ships: the dict displays of
\* interpret.py lines 17-60 and extract.py lines 19-58
Shipped == [intent |-> IntentItems, field |-> FieldItems]

\* the most files handed to one run of the orchestrator, and the most uploads
\* to the server
MaxFiles == 2
MaxUploads == 1

\* the position of a file in the arguments of main, or the file_id of an upload
FileIds == 1..(IF MaxFiles > MaxUploads THEN MaxFiles ELSE MaxUploads)

\* the file_ids of the uploads (a uuid4 each, new for every upload)
UploadIds == 1..MaxUploads

\* no call of process_file for the file yet: the processor as __init__ leaves it
\* (process.py lines 36-39: no transcriber, no TTS engine)
NoRun ==
  [pc |-> "idle", file |-> [name |-> "", exists |-> FALSE],
   transcriber |-> "None", tts_engine |-> "None",
   intent_result |-> EmptyDict, results |-> EmptyDict, steps |-> <<>>]

NoUpload == [pc |-> "none", filename |-> "", type |-> ""]
NoWorker == [pc |-> "none"]
NothingSeen == [status |-> "none", result |-> "none"]

\* web_server.py lines 32-33, and no request yet
InitService ==
  /\ runs = [f \in FileIds |-> NoRun]
  /\ processing_status = EmptyDict
  /\ processing_results = EmptyDict
  /\ uploads = [f \in UploadIds |-> NoUpload]
  /\ workers = [f \in UploadIds |-> NoWorker]
  /\ seen = [f \in UploadIds |-> NothingSeen]

Init ==
  /\ config = Shipped
  /\ parser = IntentParser_init(config.intent)
  /\ extractor = DocumentExtractor_init(config.field)
  /\ op = "idle"
  /\ text = ""
  /\ extracted_fields = EmptyDict
  /\ ret = NoReturn
  /\ intent_result = EmptyDict
  /\ calls = [t \in Threads |-> NoFrame]
  /\ log = <<>>
  /\ InitService

\* parser.extract_intent(t)
ExtractIntentCall ==
  /\ op = "idle"
  /\ ~parser.raised
  /\ \E t \in IntentTexts \cup TestCases \cup ParameterTexts :
       /\ text' = t
       /\ ret' = extract_intent(parser.intent_patterns, t)
  /\ op' = "extract_intent"
  /\ UNCHANGED <<config, parser, extractor, extracted_fields, intent_result, calls, log, service>>

\* extractor.extract_structured_fields(t)
ExtractFieldsCall ==
  /\ op = "idle"
  /\ ~extractor.raised
  /\ \E t \in FieldTexts :
       LET extracted == ExtractedFields(extractor.field_patterns, t)
       IN /\ text' = t
          /\ extracted_fields' = IF extracted.raised THEN EmptyDict ELSE extracted.fields
          /\ ret' = ReturnCleaned(extracted)
  /\ op' = "extract_structured_fields"
  /\ UNCHANGED <<config, parser, extractor, intent_result, calls, log, service>>

\* extractor._clean_extracted_fields(fields)
CleanCall ==
  /\ op = "idle"
  /\ ~extractor.raised
  /\ \E fields \in CleanInputs :
       /\ extracted_fields' = fields
       /\ ret' = [raised |-> FALSE, fields |-> clean_extracted_fields(fields)]
  /\ op' = "_clean_extracted_fields"
  /\ UNCHANGED <<config, parser, extractor, text, intent_result, calls, log, service>>

\* extractor._clean_extracted_fields(fields) on the map the call before returned
CleanAgainCall ==
  /\ op \in {"extract_structured_fields", "_clean_extracted_fields"}
  /\ ~ret.raised
  /\ extracted_fields' = ret.fields
  /\ ret' = [raised |-> FALSE, fields |-> clean_extracted_fields(ret.fields)]
  /\ op' = "_clean_extracted_fields again"
  /\ UNCHANGED <<config, parser, extractor, text, intent_result, calls, log, service>>

\* parser.generate_response(r)
GenerateResponseCall ==
  /\ op = "idle"
  /\ ~parser.raised
  /\ \E r \in IntentResults :
       /\ intent_result' = r
       /\ ret' = generate_response(r)
  /\ op' = "generate_response"
  /\ UNCHANGED <<config, parser, extractor, text, extracted_fields, calls, log, service>>

\* parser.generate_response(result) on the result extract_intent has just
\* returned, as main and the audio pipeline call it
RespondCall ==
  /\ op = "extract_intent"
  /\ ~ret.raised
  /\ intent_result' = ResultDict(ret)
  /\ ret' = generate_response(ResultDict(ret))
  /\ op' = "generate_response"
  /\ UNCHANGED <<config, parser, extractor, text, extracted_fields, calls, log, service>>

\* the caller takes the result; the objects are ready for the next call
Return ==
  /\ op # "idle"
  /\ op' = "idle"
  /\ text' = ""
  /\ extracted_fields' = EmptyDict
  /\ ret' = NoReturn
  /\ intent_result' = EmptyDict
  /\ UNCHANGED <<config, parser, extractor, calls, log, service>>

Next ==
  \/ ExtractIntentCall \/ ExtractFieldsCall \/ CleanCall \/ GenerateResponseCall
  \/ RespondCall \/ CleanAgainCall \/ Return

Spec == Init /\ [][Next]_vars

\* calls of the parser alone
NextIntent == ExtractIntentCall \/ RespondCall \/ Return

SpecIntent == Init /\ [][NextIntent]_vars

\* replies alone
NextResponse == GenerateResponseCall \/ Return

SpecResponse == Init /\ [][NextResponse]_vars

\* calls of the extractor alone
NextFields == ExtractFieldsCall \/ CleanCall \/ CleanAgainCall \/ Return

SpecFields == Init /\ [][NextFields]_vars

(***************************************************************************)
(* Concurrent calls.  Threads call extract_intent and                      *)
(* extract_structured_fields on the one parser and the one extractor       *)
(* without a lock.  A call is cut where the thread may be switched out     *)
(* between two of its statements: after the text is normalized, after the  *)
(* loop that reads the shared table, and before it returns.  Its local     *)
(* variables live in its own frame.  For a single caller the log keeps, in *)
(* the order they returned, its first MaxLogged calls of                   *)
(* extract_structured_fields.                                              *)
(***************************************************************************)
\* a frame whose normalized text is the one thread 1 stored, as if the text
\* were kept on the shared object
FrameSharedText(t) == [calls[t] EXCEPT !.norm = calls[1].norm]

\* the local variables of the call of thread t
Frame(t) == calls[t]

objects == <<config, parser, extractor>>
sequential == <<op, text, extracted_fields, ret, intent_result>>

\* extract_intent(x) is entered: line 72
ThreadBeginIntent(t) ==
  /\ calls[t].pc = "idle"
  /\ ~parser.raised
  /\ \E x \in ThreadIntentTexts :
       calls' = [calls EXCEPT ![t] =
                   [NoFrame EXCEPT !.pc = "intent_scores",
                                   !.text = x,
                                   !.norm = str_strip(str_lower(x))]]
  /\ UNCHANGED <<objects, sequential, log, service>>

\* lines 75-81
ThreadScore(t) ==
  /\ calls[t].pc = "intent_scores"
  /\ calls' = [calls EXCEPT ![t].pc = "parameters",
                            ![t].scores = IntentScores(parser.intent_patterns, Frame(t).norm)]
  /\ UNCHANGED <<objects, sequential, log, service>>

\* lines 84-103
ThreadParams(t) ==
  /\ calls[t].pc = "parameters"
  /\ calls' = [calls EXCEPT ![t].pc = "returned_intent",
                            ![t].ret = ChooseAndReturn(parser.intent_patterns, Frame(t).text,
                                                       Frame(t).norm, Frame(t).scores)]
  /\ UNCHANGED <<objects, sequential, log, service>>

\* extract_structured_fields(x) is entered: lines 138-143
ThreadBeginFields(t) ==
  /\ calls[t].pc = "idle"
  /\ ~extractor.raised
  /\ \E x \in ThreadFieldTexts :
       calls' = [calls EXCEPT ![t] =
                   IF x = ""
                   THEN [NoFrame EXCEPT !.pc = "returned_fields",
                                        !.text = x,
                                        !.ret = [raised |-> FALSE, fields |-> EmptyDict]]
                   ELSE [NoFrame EXCEPT !.pc = "field_loop",
                                        !.text = x,
                                        !.norm = FullText(x),
                                        !.fields = NewFields]]
  /\ UNCHANGED <<objects, sequential, log, service>>

\* lines 146-155
ThreadFieldLoop(t) ==
  /\ calls[t].pc = "field_loop"
  /\ LET r == FieldLoop(extractor.field_patterns, 1, Frame(t).norm, Frame(t).fields)
     IN calls' = IF r.raised
                 THEN [calls EXCEPT ![t].pc = "returned_fields", ![t].ret = r]
                 ELSE [calls EXCEPT ![t].pc = "clean", ![t].fields = r.fields]
  /\ UNCHANGED <<objects, sequential, log, service>>

\* lines 158-160
ThreadClean(t) ==
  /\ calls[t].pc = "clean"
  /\ calls' = [calls EXCEPT ![t].pc = "returned_fields",
                            ![t].ret = [raised |-> FALSE,
                                        fields |-> clean_extracted_fields(Frame(t).fields)]]
  /\ UNCHANGED <<objects, sequential, log, service>>

\* the caller takes the result
ThreadReturn(t) ==
  /\ calls[t].pc \in {"returned_intent", "returned_fields"}
  /\ calls' = [calls EXCEPT ![t] = NoFrame]
  /\ UNCHANGED <<objects, sequential, log, service>>

\* the caller of thread 1 takes the result of extract_structured_fields and
\* writes it down with the text, while the log has room
ReturnLogged ==
  /\ calls[1].pc = "returned_fields"
  /\ calls' = [calls EXCEPT ![1] = NoFrame]
  /\ log' = IF Len(log) < MaxLogged
            THEN Append(log, [text |-> calls[1].text, ret |-> calls[1].ret])
            ELSE log
  /\ UNCHANGED <<objects, sequential, service>>

NextThreads ==
  \E t \in Threads :
    \/ ThreadBeginIntent(t) \/ ThreadScore(t) \/ ThreadParams(t)
    \/ ThreadBeginFields(t) \/ ThreadFieldLoop(t) \/ ThreadClean(t)
    \/ ThreadReturn(t)

SpecThreads == Init /\ [][NextThreads]_vars

\* one caller: calls of extract_structured_fields one after the other on the
\* one extractor, each written down
NextHistory ==
  ThreadBeginFields(1) \/ ThreadFieldLoop(1) \/ ThreadClean(1) \/ ReturnLogged

SpecHistory == Init /\ [][NextHistory]_vars

(***************************************************************************)
(* Rule configurations.  The tables are dict displays inside the two       *)
(* constructors, so a configuration is an edit of those displays.  The     *)
(* constructors and the two methods are run unchanged on the shipped       *)
(* configuration and on four malformed ones: a parameter pattern or a      *)
(* field pattern written without its capturing parentheses, and an intent  *)
(* or a field declared twice.                                              *)
(***************************************************************************)
RECURSIVE NonCapturing(_)
RECURSIVE NonCapturingEach(_)
NonCapturingEach(rs) ==
  IF rs = <<>> THEN <<>> ELSE <<NonCapturing(Head(rs))>> \o NonCapturingEach(Tail(rs))

\* the pattern with every (...) written (?:...)
NonCapturing(r) ==
  CASE r.k = "grp" -> NonCapturing(r.r)
    [] r.k = "rep" -> [r EXCEPT !.r = NonCapturing(r.r)]
    [] r.k \in {"cat", "alt"} -> [r EXCEPT !.rs = NonCapturingEach(r.rs)]
    [] OTHER -> r

\* book_appointment's parameter "time" as \d{1,2}(?::\d{2})?\s*(?:am|pm|o'clock)
IntentItemsNoGroup ==
  [IntentItems EXCEPT ![1].params[2].pattern = NonCapturing(@)]

\* get_weather declared a second time, after the six shipped intents
IntentItemsDuplicate ==
  Append(IntentItems,
         [name |-> "get_weather", keywords |-> <<"meeting">>, params |-> <<>>])

\* the first pattern of phone as (?:phone|tel|mobile)[:\s]*[0-9\-\(\)\s]+
FieldItemsNoGroup ==
  LET at == KeyIndex(FieldItems, "phone", 1)
  IN [FieldItems EXCEPT ![at].patterns[1] = NonCapturing(@)]

\* name declared a second time, after the eight shipped fields, with the
\* single pattern name[:\s]+([a-z]+)
FieldItemsDuplicate ==
  Append(FieldItems,
         [name |-> "name",
          patterns |-> <<Cat(<<Lit("name"), Plus(ColonSpace), Grp(1, Plus(In(LowerSet)))>>)>>])

Configurations ==
  { Shipped,
    [Shipped EXCEPT !.intent = IntentItemsNoGroup],
    [Shipped EXCEPT !.intent = IntentItemsDuplicate],
    [Shipped EXCEPT !.field = FieldItemsNoGroup],
    [Shipped EXCEPT !.field = FieldItemsDuplicate] }

\* both objects are constructed, each from its part of the configuration
InitConfig ==
  /\ config \in Configurations
  /\ parser = IntentParser_init(config.intent)
  /\ extractor = DocumentExtractor_init(config.field)
  /\ op = "idle"
  /\ text = ""
  /\ extracted_fields = EmptyDict
  /\ ret = NoReturn
  /\ intent_result = EmptyDict
  /\ calls = [t \in Threads |-> NoFrame]
  /\ log = <<>>
  /\ InitService

NextConfig == ExtractIntentCall \/ ExtractFieldsCall \/ Return

SpecConfig == InitConfig /\ [][NextConfig]_vars

(***************************************************************************)
(* orchestrator/process.py: MediaProcessor.  process_file is cut into its  *)
(* stages: a frame holds the processor's two lazily built engines, the     *)
(* results dict of the pipeline and, in steps, the stages that ran so far. *)
(* What the collaborators do (Whisper, OCR, the TTS engines, the file      *)
(* system) is chosen among the outcomes their callers provide for.  The    *)
(* "timestamp" entry of a results dict is left out.                        *)
(***************************************************************************)
RECURSIVE str_rfind(_, _, _)
\* s.rfind(c) for a character c, searching down from position i; 0 when absent
str_rfind(s, c, i) ==
  IF i = 0 THEN 0 ELSE IF Char(s, i) = c THEN i ELSE str_rfind(s, c, i - 1)

\* pathlib's PurePath.suffix of a file name: from the last dot on, when that dot
\* is neither the first nor the last character of the name
PathSuffix(name) ==
  LET i == str_rfind(name, ".", Len(name))
  IN IF 1 < i /\ i < Len(name) THEN SubSeq(name, i, Len(name)) ELSE ""

\* process.py lines 42-43
audio_extensions == {".wav", ".mp3", ".m4a", ".flac", ".ogg"}
image_extensions == {".png", ".jpg", ".jpeg", ".bmp", ".tiff"}

\* a detection that reads the suffix as it is written
detect_file_type_cased(name) ==
  LET extension == PathSuffix(name)
  IN IF extension \in audio_extensions THEN "audio"
     ELSE IF extension \in image_extensions THEN "image"
     ELSE "unknown"

\* MediaProcessor.detect_file_type (lines 57-75)
detect_file_type(name) ==
  LET extension == str_lower(PathSuffix(name))
  IN IF extension \in audio_extensions THEN "audio"
     ELSE IF extension \in image_extensions THEN "image"
     ELSE "unknown"

\* the files given to process_file: a name, and whether a file of the name exists
FileNames == {"a.wav", "A.WAV", "b.png", "c.txt", "memo", ".wav"}
Files == [name : FileNames, exists : BOOLEAN]

\* what transcribe_audio returns: None after an exception, else the stripped text
Transcripts ==
  {[none |-> TRUE, value |-> ""]}
  \cup { [none |-> FALSE, value |-> t] : t \in {"", "Book at 2pm"} }

\* the text OCR reads from an image ("" when it reads nothing or fails)
OcrTexts == {"", "DOB: 5-21-90", "zz"}

\* lines 37 and 39: the processor's own IntentParser() and DocumentExtractor()
intent_parser == IntentParser_init(IntentItems)
document_extractor == DocumentExtractor_init(FieldItems)

\* a run in which line 136 is run whatever synthesize_text reported
ReplyAudioAlways(success) == TRUE

\* line 135: if synthesis_success
ReplyAudio(success) == success

\* a step-1 failure test that lets a transcript through
TranscriptionFailedNever(transcript) == FALSE

\* line 102: if not transcript_text
TranscriptionFailed(transcript) == transcript.none \/ transcript.value = ""

\* results["outputs"][key] = path
SetOutput(results, key, path) ==
  DictSet(results, "outputs", DictSet(results["outputs"], key, path))

\* lines 88-93 and 159-164: the results dict a pipeline starts with
NewResults(name, file_type) ==
  [input_file |-> name, file_type |-> file_type, outputs |-> EmptyDict]

\* the stage has run in the call for file f: its name, and whether what it was
\* run for came out of it (a model, a text, an intent, a reply, an audio file)
Ran(f, stage, ok) == [runs EXCEPT ![f].steps = Append(@, [stage |-> stage, ok |-> ok])]

\* process_file (lines 199-223): the file is validated and routed
ProcessFile(f) ==
  /\ runs[f].pc = "process_file"
  /\ LET file == runs[f].file
         file_type == detect_file_type(file.name)
     IN runs' =
          IF ~file.exists
          THEN [runs EXCEPT ![f].pc = "returned",
                            ![f].results = [error |-> "File not found: " \o file.name,
                                            input_file |-> file.name]]
          ELSE IF file_type = "audio"
          THEN [runs EXCEPT ![f].pc = "init_transcriber",
                            ![f].results = NewResults(file.name, "audio")]
          ELSE IF file_type = "image"
          THEN [runs EXCEPT ![f].pc = "image",
                            ![f].results = NewResults(file.name, "image")]
          ELSE [runs EXCEPT ![f].pc = "returned",
                            ![f].results =
                              [error |-> "Unsupported file type: " \o PathSuffix(file.name),
                               input_file |-> file.name,
                               supported_types |-> [audio |-> audio_extensions,
                                                    image |-> image_extensions]]]
  /\ UNCHANGED <<objects, sequential, calls, log, processing_status, processing_results,
                 uploads, workers, seen>>

\* step 1, line 98: _init_transcriber (lines 45-49) builds an AudioTranscriber
\* when the processor has none; its _load_model (transcribe.py lines 25-33)
\* loads Whisper or, on any exception, calls sys.exit(1)
InitTranscriber(f) ==
  /\ runs[f].pc = "init_transcriber"
  /\ \/ /\ runs[f].transcriber # "None"
        /\ runs' = [runs EXCEPT ![f].pc = "transcribe"]
     \/ /\ runs[f].transcriber = "None"
        /\ \E loaded \in BOOLEAN :
             runs' = [Ran(f, "load_model", loaded) EXCEPT
                        ![f].pc = IF loaded THEN "transcribe" ELSE "SystemExit",
                        ![f].transcriber = IF loaded THEN "AudioTranscriber" ELSE "None"]
  /\ UNCHANGED <<objects, sequential, calls, log, processing_status, processing_results,
                 uploads, workers, seen>>

\* step 1, lines 99-107: transcribe_audio and its test
Transcribe(f) ==
  /\ runs[f].pc = "transcribe"
  /\ \E transcript \in Transcripts :
       runs' =
         IF TranscriptionFailed(transcript)
         THEN [Ran(f, "transcribe", ~transcript.none /\ transcript.value # "") EXCEPT
                 ![f].pc = "returned",
                 ![f].results = DictSet(@, "error", "Failed to transcribe audio")]
         ELSE [Ran(f, "transcribe", ~transcript.none /\ transcript.value # "") EXCEPT
                 ![f].pc = "intent",
                 ![f].results = DictSet(SetOutput(@, "transcript", "transcript.txt"),
                                        "transcript_text", transcript.value)]
  /\ UNCHANGED <<objects, sequential, calls, log, processing_status, processing_results,
                 uploads, workers, seen>>

\* step 2, lines 111-121: process_transcript (interpret.py lines 105-145) reads
\* the transcript back, runs extract_intent and saves the result; it returns
\* None when the text is blank or when anything raised (saved = FALSE)
AnalyzeIntent(f) ==
  /\ runs[f].pc = "intent"
  /\ \E saved \in BOOLEAN :
       LET transcript_text == str_strip(runs[f].results["transcript_text"])
           r == extract_intent(intent_parser.intent_patterns, transcript_text)
       IN runs' =
            IF transcript_text = "" \/ r.raised \/ ~saved
            THEN [Ran(f, "intent", FALSE) EXCEPT
                    ![f].pc = "returned",
                    ![f].results = DictSet(@, "error", "Failed to analyze intent")]
            ELSE [Ran(f, "intent", TRUE) EXCEPT
                    ![f].pc = "init_tts",
                    ![f].intent_result = ResultDict(r),
                    ![f].results =
                      DictSet(DictSet(DictSet(SetOutput(@, "intent", "intent.json"),
                                              "intent", r.intent),
                                      "confidence", r.confidence),
                              "parameters", r.parameters)]
  /\ UNCHANGED <<objects, sequential, calls, log, processing_status, processing_results,
                 uploads, workers, seen>>

\* step 3, line 125: _init_tts (lines 51-55) builds a TextToSpeech when the
\* processor has none; _setup_engine (synthesize.py lines 25-39) settles on
\* gTTS, pyttsx3 or no engine.  The import of line 44 is guarded against
\* ImportError only: any other exception reaches line 142.
InitTTS(f) ==
  /\ runs[f].pc = "init_tts"
  /\ \/ /\ runs[f].tts_engine # "None"
        /\ runs' = [runs EXCEPT ![f].pc = "respond"]
     \/ /\ runs[f].tts_engine = "None"
        /\ \E engine \in {"gtts", "pyttsx3", "none"} :
             runs' = [Ran(f, "load_tts", TRUE) EXCEPT ![f].pc = "respond",
                                                ![f].tts_engine = engine]
     \/ /\ runs[f].tts_engine = "None"
        /\ runs' = [Ran(f, "load_tts", FALSE) EXCEPT
                      ![f].pc = "returned",
                      ![f].results = DictSet(@, "error", "Pipeline error: ")]
  /\ UNCHANGED <<objects, sequential, calls, log, processing_status, processing_results,
                 uploads, workers, seen>>

\* step 3, lines 129-130: the response text
Respond(f) ==
  /\ runs[f].pc = "respond"
  /\ LET response == generate_response(runs[f].intent_result)
     IN runs' =
          IF response.raised
          THEN [Ran(f, "respond", FALSE) EXCEPT
                  ![f].pc = "returned",
                  ![f].results = DictSet(@, "error", "Pipeline error: ")]
          ELSE [Ran(f, "respond", TRUE) EXCEPT
                  ![f].pc = "synthesize",
                  ![f].results = DictSet(@, "response_text", response.value)]
  /\ UNCHANGED <<objects, sequential, calls, log, processing_status, processing_results,
                 uploads, workers, seen>>

\* what synthesize_text(response_text, reply_path) can report (synthesize.py
\* lines 65-91): every back-end catches its exceptions and answers False.
\* Without an engine _create_text_file is handed a Path, whose replace() is
\* not str.replace: the TypeError is caught and the answer is False.
SynthesisReports(engine) == IF engine = "none" THEN {FALSE} ELSE BOOLEAN

\* step 3, lines 133-146: synthesis, and the results are returned
Synthesize(f) ==
  /\ runs[f].pc = "synthesize"
  /\ \E synthesis_success \in SynthesisReports(runs[f].tts_engine) :
       runs' = [Ran(f, "synthesize", synthesis_success) EXCEPT
                  ![f].pc = "returned",
                  ![f].results = IF ReplyAudio(synthesis_success)
                                 THEN SetOutput(@, "reply_audio", "reply.wav")
                                 ELSE @]
  /\ UNCHANGED <<objects, sequential, calls, log, processing_status, processing_results,
                 uploads, workers, seen>>

\* process_image_pipeline (lines 148-187): process_document (extract.py lines
\* 197-244) returns None when OCR read nothing or anything raised
ImagePipeline(f) ==
  /\ runs[f].pc = "image"
  /\ \E raw_text \in OcrTexts, saved \in BOOLEAN :
       LET fields == extract_structured_fields(document_extractor.field_patterns, raw_text)
       IN runs' =
            IF raw_text = "" \/ fields.raised \/ ~saved
            THEN [Ran(f, "ocr", FALSE) EXCEPT
                    ![f].pc = "returned",
                    ![f].results = DictSet(@, "error", "Failed to extract document fields")]
            ELSE [Ran(f, "ocr", TRUE) EXCEPT
                    ![f].pc = "returned",
                    ![f].results =
                      DictSet(DictSet(DictSet(SetOutput(@, "fields", "fields.json"),
                                              "extracted_fields", fields.fields),
                                      "field_count", Cardinality(DOMAIN fields.fields)),
                              "raw_text", raw_text)]
  /\ UNCHANGED <<objects, sequential, calls, log, processing_status, processing_results,
                 uploads, workers, seen>>

\* one stage of the pipeline of file f
Stage(f) ==
  \/ ProcessFile(f) \/ InitTranscriber(f) \/ Transcribe(f) \/ AnalyzeIntent(f)
  \/ InitTTS(f) \/ Respond(f) \/ Synthesize(f) \/ ImagePipeline(f)

\* main (lines 282-297): one processor, process_file for each argument in turn.
\* The engines a file made the processor build are there for the next file.
MainCall(f) ==
  /\ runs[f].pc = "idle"
  /\ f > 1 => runs[f - 1].pc = "returned"
  /\ \E file \in Files :
       runs' = [runs EXCEPT
                  ![f] = [NoRun EXCEPT
                            !.pc = "process_file",
                            !.file = file,
                            !.transcriber = IF f > 1 THEN runs[f - 1].transcriber ELSE "None",
                            !.tts_engine = IF f > 1 THEN runs[f - 1].tts_engine ELSE "None"]]
  /\ UNCHANGED <<objects, sequential, calls, log, processing_status, processing_results,
                 uploads, workers, seen>>

NextPipeline == \E f \in FileIds : MainCall(f) \/ Stage(f)

SpecPipeline == Init /\ [][NextPipeline]_vars

(***************************************************************************)
(* web_server.py.  Every request is served by a thread of its own and      *)
(* every accepted upload starts one more thread, process_file_async; all   *)
(* of them read and write the two module-level dicts without a lock.  A    *)
(* thread is cut at each of its writes to the dicts and around its call of *)
(* process_file, whose stages are those of the orchestrator above.  The    *)
(* client asks for the status and the result of a file_id only after the   *)
(* answer to its upload gave it that file_id.                              *)
(***************************************************************************)
\* web_server.py lines 36-37
ALLOWED_AUDIO_EXTENSIONS == {"wav", "mp3", "m4a", "flac", "ogg"}
ALLOWED_IMAGE_EXTENSIONS == {"png", "jpg", "jpeg", "bmp", "tiff"}

\* str.endswith
str_endswith(s, suffix) ==
  Len(suffix) <= Len(s) /\ SubSeq(s, Len(s) - Len(suffix) + 1, Len(s)) = suffix

\* allowed_file (lines 39-51)
allowed_file(filename, file_type) ==
  LET dot == str_rfind(filename, ".", Len(filename))
      ext == str_lower(SubSeq(filename, dot + 1, Len(filename)))
  IN /\ dot # 0
     /\ \/ file_type = "audio" /\ ext \in ALLOWED_AUDIO_EXTENSIONS
        \/ file_type = "image" /\ ext \in ALLOWED_IMAGE_EXTENSIONS

\* lines 120-126: the type of the file when the form asks for "auto"
AutoType(filename) ==
  IF \E ext \in {".wav", ".mp3", ".m4a", ".flac"} : str_endswith(str_lower(filename), ext)
  THEN "audio"
  ELSE IF \E ext \in {".png", ".jpg", ".jpeg", ".bmp"} : str_endswith(str_lower(filename), ext)
  THEN "image"
  ELSE "unsupported"

\* lines 110-129: whether upload_file accepts the file, and as which type
Accepted(filename, type) ==
  LET file_type == IF type = "auto" THEN AutoType(filename) ELSE type
  IN IF filename = "" \/ file_type = "unsupported" \/ ~allowed_file(filename, file_type)
     THEN [ok |-> FALSE, type |-> ""]
     ELSE [ok |-> TRUE, type |-> file_type]

\* the uploads of the model: a file name and the "type" field of the form
UploadNames == {"a.wav", "b.png", "c.txt"}
UploadTypes == {"auto", "image"}

\* a worker that keeps the result to itself
StoreNothing(f, result) == processing_results

\* line 82: processing_results[file_id] = result
StoreResult(f, result) == DictSet(processing_results, f, result)

\* upload_file up to thread.start() (lines 109-143): a request that fails the
\* validation is answered 400 and one whose file cannot be saved 500; else
\* the file is saved under a new file_id and the thread is started
UploadStart(f) ==
  /\ uploads[f].pc = "none"
  /\ f > 1 => uploads[f - 1].pc # "none"
  /\ \E filename \in UploadNames, type \in UploadTypes, saved \in BOOLEAN :
       LET accepted == Accepted(filename, type)
       IN IF accepted.ok /\ saved
          THEN /\ uploads' = [uploads EXCEPT ![f] = [pc |-> "started", filename |-> filename,
                                                     type |-> accepted.type]]
               /\ workers' = [workers EXCEPT ![f].pc = "begin"]
          ELSE /\ uploads' = [uploads EXCEPT ![f] = [pc |-> "refused", filename |-> filename,
                                                     type |-> accepted.type]]
               /\ UNCHANGED workers
  /\ UNCHANGED <<objects, sequential, calls, log, runs, processing_status,
                 processing_results, seen>>

\* lines 145-150: the answer with the file_id reaches the client
UploadReturn(f) ==
  /\ uploads[f].pc = "started"
  /\ uploads' = [uploads EXCEPT ![f].pc = "returned"]
  /\ UNCHANGED <<objects, sequential, calls, log, runs, processing_status,
                 processing_results, workers, seen>>

\* process_file_async, lines 56-60: the first statement of the thread
WorkerBegin(f) ==
  /\ workers[f].pc = "begin"
  /\ processing_status' =
       DictSet(processing_status, f,
               [status |-> "processing", step |-> "Initializing...", progress |-> 0])
  /\ workers' = [workers EXCEPT ![f].pc = "init"]
  /\ UNCHANGED <<objects, sequential, calls, log, runs, processing_results, uploads, seen>>

\* lines 63-75: the output directory and the processor are made (either may
\* raise), the step and the progress of the status are updated (lines 68-73,
\* the status stays "processing"), and process_file is called on the saved file
WorkerInit(f) ==
  /\ workers[f].pc = "init"
  /\ \E made \in BOOLEAN :
       IF made
       THEN /\ processing_status' =
                 DictSet(processing_status, f,
                         [status |-> "processing", step |-> "Processing file...",
                          progress |-> 40])
            /\ runs' = [runs EXCEPT
                          ![f] = [NoRun EXCEPT
                                    !.pc = "process_file",
                                    !.file = [name |-> "id_" \o uploads[f].filename,
                                              exists |-> TRUE]]]
            /\ workers' = [workers EXCEPT ![f].pc = "process_file"]
       ELSE /\ workers' = [workers EXCEPT ![f].pc = "except"]
            /\ UNCHANGED <<processing_status, runs>>
  /\ UNCHANGED <<objects, sequential, calls, log, processing_results, uploads, seen>>

\* lines 75-82: process_file has returned; the step and the progress of the
\* status are updated (lines 78-79) and the result is stored (line 82)
WorkerStore(f) ==
  /\ workers[f].pc = "process_file"
  /\ runs[f].pc = "returned"
  /\ processing_status' =
       DictSet(processing_status, f,
               [status |-> "processing", step |-> "Finalizing...", progress |-> 90])
  /\ processing_results' = StoreResult(f, runs[f].results)
  /\ workers' = [workers EXCEPT ![f].pc = "complete"]
  /\ UNCHANGED <<objects, sequential, calls, log, runs, uploads, seen>>

\* lines 83-87
WorkerComplete(f) ==
  /\ workers[f].pc = "complete"
  /\ processing_status' =
       DictSet(processing_status, f,
               [status |-> "completed", step |-> "Complete!", progress |-> 100])
  /\ workers' = [workers EXCEPT ![f].pc = "cleanup"]
  /\ UNCHANGED <<objects, sequential, calls, log, runs, processing_results, uploads, seen>>

\* lines 90-91: the uploaded file is removed, which may raise
WorkerCleanup(f) ==
  /\ workers[f].pc = "cleanup"
  /\ \E removed \in BOOLEAN :
       workers' = [workers EXCEPT ![f].pc = IF removed THEN "done" ELSE "except"]
  /\ UNCHANGED <<objects, sequential, calls, log, runs, processing_status,
                 processing_results, uploads, seen>>

\* lines 93-98: except Exception
WorkerExcept(f) ==
  /\ workers[f].pc = "except"
  /\ processing_status' =
       DictSet(processing_status, f, [status |-> "error", step |-> "Error: ", progress |-> 0])
  /\ workers' = [workers EXCEPT ![f].pc = "except_result"]
  /\ UNCHANGED <<objects, sequential, calls, log, runs, processing_results, uploads, seen>>

\* line 99
WorkerExceptResult(f) ==
  /\ workers[f].pc = "except_result"
  /\ processing_results' = DictSet(processing_results, f, [error |-> "Error: "])
  /\ workers' = [workers EXCEPT ![f].pc = "done"]
  /\ UNCHANGED <<objects, sequential, calls, log, runs, processing_status, uploads, seen>>

\* the SystemExit of sys.exit(1) (transcribe.py line 33) is no Exception:
\* neither process.py line 142 nor web_server.py line 93 catches it, and a
\* thread it leaves simply ends
WorkerExit(f) ==
  /\ workers[f].pc = "process_file"
  /\ runs[f].pc = "SystemExit"
  /\ workers' = [workers EXCEPT ![f].pc = "ended"]
  /\ UNCHANGED <<objects, sequential, calls, log, runs, processing_status,
                 processing_results, uploads, seen>>

\* get_status (lines 155-161), asked as the page does (checkStatus, lines
\* 531-551): by the client that was given the file_id, again and again until
\* the answer is "completed" or "error"
GetStatus(f) ==
  /\ uploads[f].pc = "returned"
  /\ seen[f].status \notin {"completed", "error"}
  /\ seen' = [seen EXCEPT ![f].status = IF f \in DOMAIN processing_status
                                        THEN processing_status[f].status ELSE "404"]
  /\ UNCHANGED <<objects, sequential, calls, log, runs, processing_status,
                 processing_results, uploads, workers>>

\* get_result (lines 163-169), asked as the page does (loadResults, lines
\* 553-563): once, after the status "completed" was seen
GetResult(f) ==
  /\ seen[f].status = "completed"
  /\ seen[f].result = "none"
  /\ seen' = [seen EXCEPT ![f].result = IF f \in DOMAIN processing_results
                                        THEN "200" ELSE "404"]
  /\ UNCHANGED <<objects, sequential, calls, log, runs, processing_status,
                 processing_results, uploads, workers>>

\* one step of the thread of file_id f
Worker(f) ==
  \/ WorkerBegin(f) \/ WorkerInit(f) \/ Stage(f) \/ WorkerStore(f) \/ WorkerComplete(f)
  \/ WorkerCleanup(f) \/ WorkerExcept(f) \/ WorkerExceptResult(f) \/ WorkerExit(f)

NextServer ==
  \E f \in UploadIds :
    UploadStart(f) \/ UploadReturn(f) \/ Worker(f) \/ GetStatus(f) \/ GetResult(f)

SpecServer == Init /\ [][NextServer]_vars

\* the statements of the thread of file_id f outside the intent parser
ThreadStep(f) ==
  \/ WorkerBegin(f) \/ WorkerInit(f) \/ ProcessFile(f) \/ InitTranscriber(f)
  \/ Transcribe(f) \/ InitTTS(f) \/ Synthesize(f) \/ ImagePipeline(f)
  \/ WorkerStore(f) \/ WorkerComplete(f) \/ WorkerCleanup(f) \/ WorkerExcept(f)
  \/ WorkerExceptResult(f) \/ WorkerExit(f)

\* the thread is not held for ever inside the intent parser.  AnalyzeIntent(f)
\* and Respond(f) are enabled exactly at the positions "intent" and "respond"
\* and each step of them leaves its position, so this is weak fairness of both.
ParserReturns(f) == []<>(runs[f].pc \notin {"intent", "respond"})

\* every thread that can take a step is scheduled again, and a request that
\* is being served is answered
SpecServerFair ==
  SpecServer /\ \A f \in UploadIds :
                  WF_vars(ThreadStep(f)) /\ ParserReturns(f) /\ WF_vars(UploadReturn(f))

(***************************************************************************)
(* Properties of extract_intent                                            *)
(***************************************************************************)
\* the text extract_intent scores and searches
TextLower == str_strip(str_lower(text))

\* the positions of the keywords of table[i] that occur in t
Hits(table, i, t) ==
  { j \in 1..Len(table[i].keywords) : str_contains(table[i].keywords[j], t) }

HitCount(table, i, t) == Cardinality(Hits(table, i, t))

\* the position in the table of the intent returned, 0 when it is not in it
Returned(table) ==
  IF \E i \in 1..Len(table) : table[i].name = ret.intent
  THEN CHOOSE i \in 1..Len(table) : table[i].name = ret.intent
  ELSE 0

IntentReturned == op = "extract_intent" /\ ~ret.raised

\* C1: a text in which no keyword of any intent occurs (the empty and the
\* whitespace-only text included) is answered with intent "unknown",
\* confidence 0 and no parameters.
C1_NoHitIsUnknown ==
  op = "extract_intent" =>
    LET table == parser.intent_patterns
    IN (\A i \in 1..Len(table) : Hits(table, i, TextLower) = {}) =>
         /\ ~ret.raised
         /\ ret.intent = "unknown"
         /\ ret.confidence = 0
         /\ ret.parameters = EmptyDict

\* a text without any keyword in which a parameter pattern of an intent matches
C1_Witness ==
  /\ IntentReturned
  /\ LET table == parser.intent_patterns
     IN /\ \A i \in 1..Len(table) : Hits(table, i, TextLower) = {}
        /\ \E i \in 1..Len(table) : \E k \in 1..Len(table[i].params) :
             re_search(table[i].params[k].pattern, TextLower).ok
  /\ ret.intent = "unknown"
  /\ ret.parameters = EmptyDict

\* C2: with at least one keyword hit, the intent returned has the largest
\* keyword score of all intents and is the earliest declared intent that has it.
C2_FirstMaxWins ==
  op = "extract_intent" =>
    LET table == parser.intent_patterns
    IN (\E i \in 1..Len(table) : Hits(table, i, TextLower) # {}) =>
         /\ ~ret.raised
         /\ Returned(table) # 0
         /\ \A i \in 1..Len(table) :
              /\ HitCount(table, i, TextLower) <= HitCount(table, Returned(table), TextLower)
              /\ i < Returned(table) =>
                   HitCount(table, i, TextLower) < HitCount(table, Returned(table), TextLower)

\* two intents share the largest score and the earlier one is returned
C2_Witness ==
  /\ IntentReturned
  /\ LET table == parser.intent_patterns
         w == Returned(table)
     IN /\ w # 0
        /\ \E i \in 1..Len(table) :
             /\ i > w
             /\ HitCount(table, i, TextLower) = HitCount(table, w, TextLower)

\* C3: confidence is hits / keywords of the intent returned, rounded to two
\* decimals (it is within half a hundredth of the quotient), lies in [0, 1],
\* and is positive exactly when the intent is not "unknown".
C3_Confidence ==
  op = "extract_intent" =>
    LET table == parser.intent_patterns
        w == Returned(table)
    IN /\ ~ret.raised
       /\ ret.confidence \in 0..100
       /\ (ret.confidence > 0) <=> (ret.intent # "unknown")
       /\ ret.intent # "unknown" =>
            /\ w # 0
            /\ LET hits == HitCount(table, w, TextLower)
                   total == Len(table[w].keywords)
                   off == ret.confidence * total - 100 * hits
               IN 2 * off <= total /\ -2 * off <= total

\* a confidence that is not a whole number of hundredths before rounding, and
\* is rounded up
C3_Witness ==
  /\ IntentReturned
  /\ LET table == parser.intent_patterns
         w == Returned(table)
     IN /\ w # 0
        /\ ret.confidence * Len(table[w].keywords) > 100 * HitCount(table, w, TextLower)

\* C5: every parameter returned is a parameter declared for the intent
\* returned whose pattern matches the lower-cased, trimmed text; a pattern
\* without a match gives no entry and no error.
C5_ParametersMatched ==
  op = "extract_intent" =>
    /\ ~ret.raised
    /\ LET table == parser.intent_patterns
           w == Returned(table)
       IN \A name \in DOMAIN ret.parameters :
            /\ w # 0
            /\ \E k \in 1..Len(table[w].params) :
                 /\ table[w].params[k].name = name
                 /\ re_search(table[w].params[k].pattern, TextLower).ok

\* one parameter of the intent returned matched and another did not
C5_Witness ==
  /\ IntentReturned
  /\ LET table == parser.intent_patterns
         w == Returned(table)
     IN /\ w # 0
        /\ ret.parameters # EmptyDict
        /\ \E k \in 1..Len(table[w].params) :
             /\ ~re_search(table[w].params[k].pattern, TextLower).ok
             /\ table[w].params[k].name \notin DOMAIN ret.parameters

\* whether kw is read in t from position p on
OccursAt(kw, t, p) ==
  /\ p + Len(kw) - 1 <= Len(t)
  /\ \A j \in 1..Len(kw) : Char(t, p + j - 1) = Char(kw, j)

\* the positions of the keywords of table[i] read somewhere in t
Occurring(table, i, t) ==
  { j \in 1..Len(table[i].keywords) :
      \E p \in 1..Len(t) : OccursAt(table[i].keywords[j], t, p) }

\* C14: the score of an intent is the number of its keywords that occur
\* somewhere in the lower-cased text, inside a longer word or not, each
\* counted once however often it occurs; the intent returned has a keyword
\* occurring and the confidence is that number over the number of keywords.
C14_SubstringScore ==
  op = "extract_intent" =>
    LET table == parser.intent_patterns
        scores == IntentScores(table, TextLower)
        w == Returned(table)
    IN /\ ~ret.raised
       /\ \A i \in 1..Len(table) :
            scores[i] = Cardinality(Occurring(table, i, TextLower))
       /\ (ret.intent = "unknown") <=>
            (\A i \in 1..Len(table) : Occurring(table, i, TextLower) = {})
       /\ w # 0 =>
            LET hits == Cardinality(Occurring(table, w, TextLower))
                total == Len(table[w].keywords)
            IN /\ hits > 0
               /\ 2 * (100 * hits - ret.confidence * total) <= total
               /\ 2 * (ret.confidence * total - 100 * hits) <= total

\* a keyword of the intent returned occurs twice, each time inside a longer
\* word and never as a word of its own, and counts once
C14_Witness ==
  /\ IntentReturned
  /\ LET table == parser.intent_patterns
         w == Returned(table)
     IN /\ w # 0
        /\ Cardinality(Occurring(table, w, TextLower)) = 1
        /\ ret.confidence * Len(table[w].keywords) = 100
        /\ \E j \in Occurring(table, w, TextLower) :
             LET kw == table[w].keywords[j]
                 at == { p \in 1..Len(TextLower) : OccursAt(kw, TextLower, p) }
             IN /\ Cardinality(at) = 2
                /\ \A p \in at : p > 1 /\ Char(TextLower, p - 1) \in LetterSet

\* C15: "I want to book an appointment for Monday at 2pm" is answered with
\* intent "book_appointment", a confidence above 0, the date "monday" and the
\* time "2pm".
C15_BookAppointmentExample ==
  op = "extract_intent" /\ text = "I want to book an appointment for Monday at 2pm" =>
    /\ ~ret.raised
    /\ ret.intent = "book_appointment"
    /\ ret.confidence > 0
    /\ "date" \in DOMAIN ret.parameters /\ ret.parameters["date"] = "monday"
    /\ "time" \in DOMAIN ret.parameters /\ ret.parameters["time"] = "2pm"

\* the sentence was classified: 2 of the 5 keywords, and no service
C15_Witness ==
  /\ IntentReturned
  /\ text = "I want to book an appointment for Monday at 2pm"
  /\ ret.intent = "book_appointment"
  /\ ret.confidence = 40
  /\ DOMAIN ret.parameters = {"date", "time"}

(***************************************************************************)
(* Properties of generate_response                                         *)
(***************************************************************************)
Apology == "I'm not sure how to help with that, but I'm here to assist you."

\* how the reply of each intent of the table begins
TemplateHead(intent) ==
  CASE intent = "book_appointment" -> "Okay, I've booked your appointment"
    [] intent = "get_weather" -> "The weather"
    [] intent = "set_reminder" -> "I'll remind you"
    [] intent = "play_music" -> "Playing"
    [] intent = "get_directions" -> "Here are directions"
    [] intent = "general_question" -> "Let me help you with that question."

Templated ==
  { parser.intent_patterns[i].name : i \in 1..Len(parser.intent_patterns) }

\* the parameters handed over, none when the key is missing
GivenParams ==
  IF "parameters" \in DOMAIN intent_result THEN intent_result.parameters ELSE EmptyDict

\* whether a parameter was handed over with a non-empty value
Present(key) == key \in DOMAIN GivenParams /\ GivenParams[key] # ""

\* C16: the reply to intent "unknown", to an intent name without a template
\* and to a result without the key "intent" is one and the same apology; the
\* reply to any other intent is that intent's own template.
C16_ApologyFallback ==
  op = "generate_response" =>
    /\ ~ret.raised
    /\ IF "intent" \in DOMAIN intent_result /\ intent_result.intent \in Templated
       THEN LET head == TemplateHead(intent_result.intent)
            IN /\ ret.value # Apology
               /\ Len(ret.value) >= Len(head)
               /\ SubSeq(ret.value, 1, Len(head)) = head
       ELSE ret.value = Apology

\* a result without the key "intent", with a parameter, got the apology
C16_Witness ==
  /\ op = "generate_response" /\ ~ret.raised
  /\ "intent" \notin DOMAIN intent_result
  /\ Present("date")
  /\ ret.value = Apology

\* the clause of a parameter: written when the parameter is present with a
\* non-empty value
ClauseOf(prefix, key) == IF Present(key) THEN prefix \o GivenParams[key] ELSE ""

\* C17: the reply of an intent is its sentence with the clause of a parameter
\* (" for <date>", " at <time>", " in <location>", ...) written if and only if
\* that parameter is present with a non-empty value; without parameters it is
\* the bare sentence.
C17_ClauseIffPresent ==
  op = "generate_response" /\ "intent" \in DOMAIN intent_result =>
    /\ ~ret.raised
    /\ LET intent == intent_result.intent
       IN /\ intent = "book_appointment" =>
               ret.value = "Okay, I've booked your appointment"
                           \o ClauseOf(" for ", "date") \o ClauseOf(" at ", "time") \o "."
          /\ intent = "get_weather" =>
               ret.value = "The weather" \o ClauseOf(" in ", "location")
                           \o " is looking good today."
          /\ intent = "set_reminder" =>
               ret.value = "I'll remind you" \o ClauseOf(" to ", "task")
                           \o ClauseOf(" ", "time") \o "."
          /\ intent = "play_music" =>
               ret.value = "Playing"
                           \o (IF Present("song") THEN ClauseOf(" ", "song") ELSE " music")
                           \o ClauseOf(" by ", "artist") \o "."
          /\ intent = "get_directions" =>
               ret.value = "Here are directions" \o ClauseOf(" to ", "destination") \o "."
          /\ intent = "general_question" =>
               ret.value = "Let me help you with that question."

\* an appointment with a date and with an empty time: the date clause alone
C17_Witness ==
  /\ op = "generate_response" /\ ~ret.raised
  /\ "intent" \in DOMAIN intent_result
  /\ intent_result.intent = "book_appointment"
  /\ Present("date")
  /\ "time" \in DOMAIN GivenParams /\ ~Present("time")
  /\ ret.value = "Okay, I've booked your appointment for monday."

\* C18: generate_response returns a str and raises nothing, whatever the
\* intent and whichever parameters are present, those that other intents'
\* templates read included.
C18_AlwaysAString ==
  op = "generate_response" =>
    /\ ~ret.raised
    /\ ret.value \in STRING
    /\ Len(ret.value) > 0

\* directions asked with the parameters of the music template
C18_Witness ==
  /\ op = "generate_response" /\ ~ret.raised
  /\ "intent" \in DOMAIN intent_result
  /\ intent_result.intent = "get_directions"
  /\ Present("song") /\ Present("artist")
  /\ ret.value = "Here are directions."

\* whether the template of an intent reads a parameter
TemplateReads(intent, key) ==
  \/ intent = "book_appointment" /\ key \in {"date", "time"}
  \/ intent = "get_weather" /\ key = "location"
  \/ intent = "set_reminder" /\ key \in {"task", "time"}
  \/ intent = "play_music" /\ key \in {"song", "artist"}
  \/ intent = "get_directions" /\ key = "destination"

\* the reply was made from the result of extract_intent on text
Replied ==
  /\ op = "generate_response" /\ ~ret.raised
  /\ "original_text" \in DOMAIN intent_result
  /\ intent_result.original_text = text

\* what a pattern captures in the lower-cased text: its first group, trimmed
Captured(pattern) ==
  LET m == re_search(pattern, TextLower)
  IN str_strip(SubSeq(TextLower, m.caps[1][1], m.caps[1][2] - 1))

\* the parameters of the table entry of an intent name, none for "unknown"
ParamsDeclared(table, intent) ==
  IF \E i \in 1..Len(table) : table[i].name = intent
  THEN table[CHOOSE i \in 1..Len(table) : table[i].name = intent].params
  ELSE <<>>

\* every parameter whose pattern matches is in params with what was captured,
\* trimmed and nothing else: short or not, with noise characters or not
AsCaptured(declared, params) ==
  \A k \in 1..Len(declared) :
    re_search(declared[k].pattern, TextLower).ok =>
      /\ declared[k].name \in DOMAIN params
      /\ params[declared[k].name] = Captured(declared[k].pattern)

\* C21: a parameter value is what its pattern captured, trimmed: it is not
\* dropped when its length is 2 or less, its noise characters stay, and it is
\* the value generate_response writes into the reply.
C21_ParametersAsCaptured ==
  /\ op = "extract_intent" =>
       /\ ~ret.raised
       /\ AsCaptured(ParamsDeclared(parser.intent_patterns, ret.intent), ret.parameters)
  /\ Replied =>
       /\ AsCaptured(ParamsDeclared(parser.intent_patterns, intent_result.intent),
                     intent_result.parameters)
       /\ \A key \in {"date", "task", "song", "destination", "location"} :
            Present(key) /\ TemplateReads(intent_result.intent, key) =>
              str_contains(" " \o GivenParams[key], ret.value)

\* "Remind me to #1": the task "#1", of length 2 and with a noise character,
\* is in the reply
C21_Witness ==
  /\ Replied
  /\ intent_result.intent = "set_reminder"
  /\ "task" \in DOMAIN intent_result.parameters
  /\ intent_result.parameters["task"] = "#1"
  /\ ret.value = "I'll remind you to #1."

(***************************************************************************)
(* Properties of extract_structured_fields and _clean_extracted_fields     *)
(***************************************************************************)
\* the positions of the patterns of a field that match the text t
Matching(patterns, t) == { k \in 1..Len(patterns) : re_search(patterns[k], t).ok }

\* the first capturing group of the leftmost match of a pattern in t, trimmed
\* and with every whitespace run collapsed, title-cased for the field name
\* (lines 150-153)
GroupRecorded(field_name, pattern, t) ==
  LET m == re_search(pattern, t)
      value == re_sub_spaces(str_strip(SubSeq(t, m.caps[1][1], m.caps[1][2] - 1)), FALSE)
  IN IF field_name = "name" THEN str_title(value, FALSE) ELSE value

Min(S) == CHOOSE k \in S : \A j \in S : k <= j

\* C6: every value of the final field map has trimmed length greater than 2.
C6_ValuesLongerThan2 ==
  op \in {"extract_structured_fields", "_clean_extracted_fields"} =>
    /\ ~ret.raised
    /\ \A key \in DOMAIN ret.fields : Len(str_strip(ret.fields[key])) > 2

\* a field was found with a value of length 2 and is not in the final map,
\* while another field is
C6_Witness ==
  /\ op = "extract_structured_fields" /\ ~ret.raised
  /\ ret.fields # EmptyDict
  /\ \E key \in DOMAIN extracted_fields :
       /\ Len(extracted_fields[key]) = 2
       /\ key \notin DOMAIN ret.fields

\* C7: the value recorded for a field comes from the earliest pattern of the
\* field, in declared order, that matches the normalized text: it is that
\* pattern's first capturing group (trimmed and whitespace-collapsed as lines
\* 150-153 do), whatever the later patterns match; a field none of whose
\* patterns matches is absent.
C7_EarliestPatternWins ==
  op = "extract_structured_fields" =>
    /\ ~ret.raised
    /\ LET table == extractor.field_patterns
           t == FullText(text)
       IN \A i \in 1..Len(table) :
            LET hit == Matching(table[i].patterns, t)
            IN IF hit = {} \/ text = ""
               THEN table[i].name \notin DOMAIN extracted_fields
               ELSE /\ table[i].name \in DOMAIN extracted_fields
                    /\ extracted_fields[table[i].name]
                         = GroupRecorded(table[i].name, table[i].patterns[Min(hit)], t)

\* two patterns of one field match with different groups, and the group of
\* the earlier one is recorded
C7_Witness ==
  /\ op = "extract_structured_fields" /\ ~ret.raised
  /\ LET table == extractor.field_patterns
         t == FullText(text)
     IN \E i \in 1..Len(table) :
          LET hit == Matching(table[i].patterns, t)
          IN /\ table[i].name \in DOMAIN extracted_fields
             /\ \E k \in hit :
                  /\ k > Min(hit)
                  /\ GroupRecorded(table[i].name, table[i].patterns[k], t)
                       # extracted_fields[table[i].name]

\* C8: fields are extracted independently: a field is found, and with the
\* same value, exactly as it is from the same text by an extractor whose
\* table holds that field alone.
C8_FieldsIndependent ==
  op = "extract_structured_fields" =>
    /\ ~ret.raised
    /\ LET table == extractor.field_patterns
       IN \A i \in 1..Len(table) :
            LET alone == ExtractedFields(<<table[i]>>, text)
                name == table[i].name
            IN /\ ~alone.raised
               /\ (name \in DOMAIN extracted_fields) <=> (name \in DOMAIN alone.fields)
               /\ name \in DOMAIN extracted_fields =>
                    extracted_fields[name] = alone.fields[name]

\* a field is found after an earlier field was found and after another
\* earlier field was not
C8_Witness ==
  /\ op = "extract_structured_fields" /\ ~ret.raised
  /\ LET table == extractor.field_patterns
     IN \E i, j, k \in 1..Len(table) :
          /\ i < k /\ j < k
          /\ table[i].name \in DOMAIN extracted_fields
          /\ table[j].name \notin DOMAIN extracted_fields
          /\ table[k].name \in DOMAIN extracted_fields

DateKeys == {"date_of_birth", "expiry_date"}

\* the value of a date key as the date rule of the clean-up reads it
DateInput(key) == str_strip(StripNoise(extracted_fields[key]))

\* the keys of date fields handed to the clean-up in whose value a numeric
\* month-day-year triple is found
WithTriple ==
  { key \in DateKeys \cap DOMAIN extracted_fields :
      /\ str_strip(extracted_fields[key]) # ""
      /\ re_search(DateTriple, DateInput(key)).ok }

TripleGroup(key, n) ==
  match_group(re_search(DateTriple, DateInput(key)), DateInput(key), n)

IsDigits(s) == s # "" /\ CharsOf(s) \subseteq DigitSet

\* C9: a date value with a numeric triple whose year token yy has 2 digits is
\* normalized to month/day/year with month and day zero-padded to 2 digits and
\* the year 2000 + yy when yy < 50, 1900 + yy when yy >= 50.
C9_TwoDigitYearPivot ==
  op \in {"extract_structured_fields", "_clean_extracted_fields"} =>
    /\ ~ret.raised
    /\ \A key \in WithTriple :
         Len(TripleGroup(key, 3)) = 2 =>
           /\ key \in DOMAIN ret.fields
           /\ LET out == ret.fields[key]
                  yy == str_int(TripleGroup(key, 3))
              IN /\ Len(out) = 10
                 /\ Char(out, 3) = "/" /\ Char(out, 6) = "/"
                 /\ IsDigits(SubSeq(out, 1, 2))
                 /\ IsDigits(SubSeq(out, 4, 5))
                 /\ IsDigits(SubSeq(out, 7, 10))
                 /\ str_int(SubSeq(out, 1, 2)) = str_int(TripleGroup(key, 1))
                 /\ str_int(SubSeq(out, 4, 5)) = str_int(TripleGroup(key, 2))
                 /\ str_int(SubSeq(out, 7, 10)) = (IF yy < 50 THEN 2000 ELSE 1900) + yy

\* "DOB: 5-21-90" gives the date of birth "05/21/1990"
C9_Witness ==
  /\ op = "extract_structured_fields" /\ ~ret.raised
  /\ "date_of_birth" \in DOMAIN extracted_fields
  /\ extracted_fields["date_of_birth"] = "5-21-90"
  /\ "date_of_birth" \in DOMAIN ret.fields
  /\ ret.fields["date_of_birth"] = "05/21/1990"

\* two digits, "/", two digits, "/", four digits
IsMMDDYYYY(s) ==
  /\ Len(s) = 10
  /\ Char(s, 3) = "/" /\ Char(s, 6) = "/"
  /\ IsDigits(SubSeq(s, 1, 2)) /\ IsDigits(SubSeq(s, 4, 5)) /\ IsDigits(SubSeq(s, 7, 10))

\* C10: whenever a numeric triple is found in the value a date pattern
\* captured, the normalized value has the form MM/DD/YYYY.
C10_DateFormIsMMDDYYYY ==
  op = "extract_structured_fields" =>
    /\ ~ret.raised
    /\ \A key \in WithTriple :
         key \in DOMAIN ret.fields /\ IsMMDDYYYY(ret.fields[key])

\* "exp 1-2-199": the year token has 3 digits and is copied as it is
C10_ThreeDigitYear ==
  /\ op = "extract_structured_fields" /\ ~ret.raised
  /\ "expiry_date" \in WithTriple
  /\ Len(TripleGroup("expiry_date", 3)) = 3
  /\ "expiry_date" \in DOMAIN ret.fields
  /\ ret.fields["expiry_date"] = "01/02/199"

\* whether s holds one or two digits, "-" or "/", one or two digits, "-" or
\* "/" and two digits, one after the other
NumericTriple(s) ==
  \E a, b \in 1..Len(s) :
    /\ Char(s, a) \in {"-", "/"} /\ Char(s, b) \in {"-", "/"}
    /\ b - a \in {2, 3}
    /\ \A i \in (a + 1)..(b - 1) : Char(s, i) \in DigitSet
    /\ a >= 2 /\ Char(s, a - 1) \in DigitSet
    /\ b + 2 <= Len(s) /\ Char(s, b + 1) \in DigitSet /\ Char(s, b + 2) \in DigitSet

\* the date keys handed to the clean-up with a value that is not blank and
\* holds no numeric triple once the noise characters are removed
WithoutTriple ==
  { key \in DateKeys \cap DOMAIN extracted_fields :
      /\ str_strip(extracted_fields[key]) # ""
      /\ ~NumericTriple(DateInput(key)) }

\* C22: a date value without a numeric triple is not rejected: without its
\* noise characters and trimmed it is returned unchanged when it is longer
\* than 2, and dropped only when it is not.
C22_DateWithoutTripleKept ==
  op \in {"extract_structured_fields", "_clean_extracted_fields"} =>
    /\ ~ret.raised
    /\ \A key \in WithoutTriple :
         IF Len(DateInput(key)) > 2
         THEN key \in DOMAIN ret.fields /\ ret.fields[key] = DateInput(key)
         ELSE key \notin DOMAIN ret.fields

\* the expiry date "May @5" is returned as "May 5"
C22_Witness ==
  /\ op = "_clean_extracted_fields" /\ ~ret.raised
  /\ "expiry_date" \in WithoutTriple
  /\ extracted_fields["expiry_date"] = "May @5"
  /\ "expiry_date" \in DOMAIN ret.fields
  /\ ret.fields["expiry_date"] = "May 5"

\* C24: _clean_extracted_fields applied to a map it returned returns that map
\* unchanged, for every field name and every value.
C24_CleanIdempotent ==
  op = "_clean_extracted_fields again" => ~ret.raised /\ ret.fields = extracted_fields

\* the name U+0149 "ab" is capitalized to U+02BC "Nab"; capitalizing that
\* leaves the caseless first character and lower-cases the N
C24_SecondPassLowersName ==
  /\ op = "_clean_extracted_fields again" /\ ~ret.raised
  /\ extracted_fields = DictSet(EmptyDict, "name", ModifierApostrophe \o "Nab")
  /\ ret.fields = DictSet(EmptyDict, "name", ModifierApostrophe \o "nab")

\* on a map of ASCII values the second pass changes nothing
C24_IdempotentOnAscii ==
  (/\ op = "_clean_extracted_fields again"
   /\ \A key \in DOMAIN extracted_fields :
        CharsOf(extracted_fields[key]) \cap {NPrecededByApostrophe, ModifierApostrophe} = {})
  => (~ret.raised /\ ret.fields = extracted_fields)

\* the positions of the line breaks of s
BreaksOf(s) == { i \in 1..Len(s) : Char(s, i) = "\n" }

RECURSIVE WithSpaces(_, _, _)
\* s from position i on, with a space for the line break at each position of at
WithSpaces(s, at, i) ==
  IF i > Len(s) THEN ""
  ELSE (IF i \in at THEN " " ELSE Char(s, i)) \o WithSpaces(s, at, i + 1)

\* C23: the result of extract_structured_fields on a text is its result on the
\* same text with any of its line breaks replaced by a single space, and the
\* empty text gives the empty map.
C23_LineBreaksAreSpaces ==
  op = "extract_structured_fields" =>
    /\ \A at \in SUBSET BreaksOf(text) :
         ret = extract_structured_fields(extractor.field_patterns, WithSpaces(text, at, 1))
    /\ text = "" => ~ret.raised /\ ret.fields = EmptyDict

\* "12/25/2020" and "Al Roe" on two lines: the second line is not the start of
\* the text, so no name is found at it, as on one line
C23_Witness ==
  /\ op = "extract_structured_fields" /\ ~ret.raised
  /\ text = "12/25/2020\nAl Roe"
  /\ BreaksOf(text) = {11}
  /\ WithSpaces(text, {11}, 1) = "12/25/2020 Al Roe"
  /\ DOMAIN ret.fields = {"date_of_birth"}
  /\ ret.fields["date_of_birth"] = "12/25/2020"

\* the value of a key handed to the clean-up, as the field rules read it:
\* without the noise characters and trimmed (lines 169-170)
RuleInput(key) == str_strip(StripNoise(extracted_fields[key]))

\* the keys handed to the clean-up whose value passes the test of line 167
NonBlank ==
  { key \in DOMAIN extracted_fields : str_strip(extracted_fields[key]) # "" }

CleanReturned ==
  op \in {"extract_structured_fields", "_clean_extracted_fields"} /\ ~ret.raised

\* the digits of s, as a sequence of characters in their order
DigitsOf(s) == SelectSeq([i \in 1..Len(s) |-> Char(s, i)], LAMBDA c : c \in DigitSet)

\* C11: a phone value with exactly 10 digits is rewritten as "(XXX) XXX-XXXX"
\* from those digits in their order; with any other number of digits the value
\* without noise characters, trimmed, passes unchanged to the length test
\* that decides whether it is kept.
C11_PhoneTenDigits ==
  CleanReturned /\ "phone" \in NonBlank =>
    LET v == RuleInput("phone")
        d == DigitsOf(v)
    IN IF Len(d) = 10
       THEN /\ "phone" \in DOMAIN ret.fields
            /\ ret.fields["phone"] =
                 "(" \o d[1] \o d[2] \o d[3] \o ") " \o d[4] \o d[5] \o d[6]
                 \o "-" \o d[7] \o d[8] \o d[9] \o d[10]
       ELSE IF Len(v) > 2
            THEN "phone" \in DOMAIN ret.fields /\ ret.fields["phone"] = v
            ELSE "phone" \notin DOMAIN ret.fields

\* "tel(123)456-7890": the 10 digits captured with their punctuation are
\* rewritten
C11_Witness ==
  /\ op = "extract_structured_fields" /\ ~ret.raised
  /\ "phone" \in DOMAIN extracted_fields
  /\ extracted_fields["phone"] = "(123)456-7890"
  /\ "phone" \in DOMAIN ret.fields
  /\ ret.fields["phone"] = "(123) 456-7890"

\* C12: no value of the final field map holds a noise character
\* | @ # $ % ^ & *, whatever the field (email included): each kept value is
\* what its field rule makes of the value without its noise characters.
C12_NoNoiseCharacter ==
  CleanReturned =>
    /\ \A key \in DOMAIN ret.fields : CharsOf(ret.fields[key]) \cap NoiseChars = {}
    /\ \A key \in DOMAIN ret.fields \ {"date_of_birth", "expiry_date", "phone", "name"} :
         ret.fields[key] = RuleInput(key)

\* an address was captured with its @ and is returned without it
C12_Witness ==
  /\ op = "extract_structured_fields" /\ ~ret.raised
  /\ "email" \in DOMAIN extracted_fields
  /\ "@" \in CharsOf(extracted_fields["email"])
  /\ "email" \in DOMAIN ret.fields
  /\ "@" \notin CharsOf(ret.fields["email"])

\* C13: the final name is the value (without noise characters, trimmed) with
\* every whitespace-delimited word capitalized (first character upper-cased,
\* the rest lower-cased) and the words joined by single spaces; it is kept when
\* longer than 2.
C13_NameCapitalized ==
  CleanReturned /\ "name" \in NonBlank =>
    LET words == str_split_ws(RuleInput("name"), "")
    IN IF "name" \notin DOMAIN ret.fields
       THEN Len(str_join(" ", words)) <= 2
       ELSE LET out == ret.fields["name"]
                outw == str_split_ws(out, "")
            IN /\ Len(out) > 2
               /\ Len(outw) = Len(words)
               /\ out = str_join(" ", outw)
               /\ \A i \in 1..Len(words) :
                    LET first == ToTitleChar(Char(words[i], 1))
                    IN /\ Len(outw[i]) = Len(first) + Len(words[i]) - 1
                       /\ SubSeq(outw[i], 1, Len(first)) = first
                       /\ \A j \in 2..Len(words[i]) :
                            Char(outw[i], Len(first) + j - 1) = ToLowerChar(Char(words[i], j))

\* "Name: john doe" gives the name "John Doe"
C13_Witness ==
  /\ op = "extract_structured_fields" /\ ~ret.raised
  /\ TextLower = "name: john doe"
  /\ "name" \in DOMAIN ret.fields
  /\ ret.fields["name"] = "John Doe"

(***************************************************************************)
(* Properties of calls in sequence and of concurrent calls                 *)
(***************************************************************************)
\* C19: a call of extract_structured_fields returns the field map that every
\* earlier call with the same text returned, whatever texts the extractor
\* processed before, after or between them.
C19_HistoryIndependent ==
  \A t \in Threads :
    calls[t].pc = "returned_fields" =>
      \A k \in 1..Len(log) :
        log[k].text = calls[t].text => log[k].ret = calls[t].ret

\* a text was processed, then another text with another result, then the
\* first text again, with the first result
C19_Witness ==
  /\ Len(log) = 2
  /\ log[1].text # log[2].text
  /\ log[1].ret # log[2].ret
  /\ log[1].ret.fields # EmptyDict /\ log[2].ret.fields # EmptyDict
  /\ calls[1].pc = "returned_fields"
  /\ calls[1].text = log[1].text
  /\ calls[1].ret = log[1].ret

\* what each call returns when it runs alone on the objects as constructed
AloneIntent ==
  [x \in ThreadIntentTexts |-> extract_intent(DictLiteral(IntentItems, <<>>), x)]
AloneFields ==
  [x \in ThreadFieldTexts |-> extract_structured_fields(DictLiteral(FieldItems, <<>>), x)]

\* C20: no call modifies the intent table or the field-pattern table, and
\* under every interleaving a call returns what it returns when run alone.
C20_ConcurrentCallsAlone ==
  /\ parser = IntentParser_init(IntentItems)
  /\ extractor = DocumentExtractor_init(FieldItems)
  /\ \A t \in Threads :
       /\ calls[t].pc = "returned_intent" => calls[t].ret = AloneIntent[calls[t].text]
       /\ calls[t].pc = "returned_fields" => calls[t].ret = AloneFields[calls[t].text]

\* two threads are inside extract_structured_fields at once, with different
\* texts: each has run its loop over the shared table and holds the fields
\* of its own text
C20_Witness ==
  \E t, u \in Threads :
    /\ t # u
    /\ calls[t].pc = "clean" /\ calls[u].pc = "clean"
    /\ calls[t].text # calls[u].text
    /\ calls[t].fields # EmptyDict /\ calls[u].fields # EmptyDict
    /\ calls[t].fields # calls[u].fields

(***************************************************************************)
(* Properties of the constructors                                          *)
(***************************************************************************)
\* a name declared twice in the items of a dict display
DuplicateName(items) ==
  \E i, j \in 1..Len(items) : i < j /\ items[i].name = items[j].name

\* a parameter pattern of an intent without a capturing group
GrouplessParam(items) ==
  \E i \in 1..Len(items) : \E j \in 1..Len(items[i].params) :
    ~HasGroup(items[i].params[j].pattern, 1)

\* a pattern of a field without a capturing group
GrouplessPattern(items) ==
  \E i \in 1..Len(items) : \E j \in 1..Len(items[i].patterns) :
    ~HasGroup(items[i].patterns[j], 1)

AudioStages == <<"transcribe", "intent", "respond", "synthesize">>

\* the stages of AudioStages that ran for file f, in the order they ran
StagesRun(f) ==
  SelectSeq(runs[f].steps,
            LAMBDA step : \E k \in 1..Len(AudioStages) : AudioStages[k] = step.stage)

\* what stage k leaves in the results: its keys, and its keys under "outputs"
StageKeys(k) ==
  CASE k = 1 -> {"transcript_text"}
    [] k = 2 -> {"intent", "confidence", "parameters"}
    [] k = 3 -> {"response_text"}
    [] k = 4 -> {}

StageOutputs(k) ==
  CASE k = 1 -> {"transcript"}
    [] k = 2 -> {"intent"}
    [] k = 3 -> {}
    [] k = 4 -> {"reply_audio"}

\* process_file has returned the results of the audio pipeline for file f
AudioReturned(f) ==
  /\ runs[f].pc = "returned"
  /\ "file_type" \in DOMAIN runs[f].results
  /\ runs[f].results["file_type"] = "audio"

\* C28: the stages of the audio pipeline run in the order transcription,
\* intent analysis, response generation, synthesis, each at most once and
\* only after every earlier one succeeded; when transcription or intent
\* analysis failed, the returned record has an "error" entry and no entry and
\* no output path of the failed stage or of a later one.
C28_StagesInOrder ==
  \A f \in FileIds :
    LET ran == StagesRun(f)
    IN /\ Len(ran) <= Len(AudioStages)
       /\ \A i \in 1..Len(ran) : ran[i].stage = AudioStages[i]
       /\ \A i \in 1..(Len(ran) - 1) : ran[i].ok
       /\ \A k \in 1..2 :
            AudioReturned(f) /\ Len(ran) >= k /\ ~ran[k].ok =>
              /\ "error" \in DOMAIN runs[f].results
              /\ \A j \in k..Len(AudioStages) :
                   /\ StageKeys(j) \cap DOMAIN runs[f].results = {}
                   /\ StageOutputs(j) \cap DOMAIN runs[f].results["outputs"] = {}

\* a run in which the transcript was made and intent analysis failed: the
\* record has the transcript, the error, and nothing of the later stages
C28_Witness ==
  \E f \in FileIds :
    /\ AudioReturned(f)
    /\ Len(StagesRun(f)) = 2
    /\ StagesRun(f)[1].ok /\ ~StagesRun(f)[2].ok
    /\ DOMAIN runs[f].results =
         {"input_file", "file_type", "outputs", "transcript_text", "error"}
    /\ DOMAIN runs[f].results["outputs"] = {"transcript"}

\* C29: when synthesis reports a failure the returned record has no "error"
\* entry and has transcript, intent, confidence, parameters and response
\* text; and the outputs of a returned record hold "reply_audio" exactly when
\* synthesis ran and reported success.
C29_SynthesisFailureTolerated ==
  \A f \in FileIds :
    AudioReturned(f) =>
      LET ran == StagesRun(f)
          synthesized == Len(ran) = 4
      IN /\ synthesized /\ ~ran[4].ok =>
              /\ "error" \notin DOMAIN runs[f].results
              /\ {"transcript_text", "intent", "confidence", "parameters", "response_text"}
                   \subseteq DOMAIN runs[f].results
              /\ {"transcript", "intent"} \subseteq DOMAIN runs[f].results["outputs"]
         /\ "reply_audio" \in DOMAIN runs[f].results["outputs"] <=> synthesized /\ ran[4].ok

\* a run with an engine whose synthesis failed
C29_Witness ==
  \E f \in FileIds :
    /\ AudioReturned(f)
    /\ runs[f].tts_engine = "gtts"
    /\ Len(StagesRun(f)) = 4 /\ ~StagesRun(f)[4].ok
    /\ "error" \notin DOMAIN runs[f].results
    /\ runs[f].results["response_text"] = "Okay, I've booked your appointment for 2 at 2pm."
    /\ DOMAIN runs[f].results["outputs"] = {"transcript", "intent"}

\* the pipeline each file name of the model belongs to by its extension
PipelineOf(name) ==
  CASE name \in {"a.wav", "A.WAV"} -> "audio"
    [] name = "b.png" -> "image"
    [] OTHER -> "none"

\* the stages of each pipeline, model loading included
StagesOf(pipeline) ==
  CASE pipeline = "audio" ->
         {"load_model", "transcribe", "intent", "load_tts", "respond", "synthesize"}
    [] pipeline = "image" -> {"ocr"}
    [] OTHER -> {}

\* process_file has routed the file of f
Routed(f) == runs[f].pc \notin {"idle", "process_file"}

\* C30: an existing file goes to the one pipeline of its lower-cased
\* extension and only stages of that pipeline run for it; for a file that
\* does not exist or whose extension is not supported, process_file returns an
\* error record at once: no stage runs and no model is loaded.
C30_RoutedByExtension ==
  \A f \in FileIds :
    Routed(f) =>
      LET file == runs[f].file
          pipeline == IF file.exists THEN PipelineOf(file.name) ELSE "none"
      IN /\ { runs[f].steps[i].stage : i \in 1..Len(runs[f].steps) } \subseteq StagesOf(pipeline)
         /\ pipeline # "none" =>
              /\ "file_type" \in DOMAIN runs[f].results
              /\ runs[f].results["file_type"] = pipeline
         /\ pipeline = "none" =>
              /\ runs[f].pc = "returned"
              /\ "error" \in DOMAIN runs[f].results
              /\ runs[f].steps = <<>>
              /\ f = 1 => runs[f].transcriber = "None" /\ runs[f].tts_engine = "None"
              /\ f > 1 => /\ runs[f].transcriber = runs[f - 1].transcriber
                          /\ runs[f].tts_engine = runs[f - 1].tts_engine

\* "A.WAV" exists and was transcribed, and "b.png" does not exist: an error
\* record and no stage
C30_Witness ==
  /\ runs[1].file = [name |-> "A.WAV", exists |-> TRUE]
  /\ runs[1].pc = "returned"
  /\ \E i \in 1..Len(runs[1].steps) : runs[1].steps[i].stage = "transcribe"
  /\ runs[2].file = [name |-> "b.png", exists |-> FALSE]
  /\ runs[2].pc = "returned"
  /\ "error" \in DOMAIN runs[2].results
  /\ runs[2].steps = <<>>

(***************************************************************************)
(* Properties of the web server                                            *)
(***************************************************************************)
\* the status the server holds for a file_id, "404" when it holds none
StatusOf(f) ==
  IF f \in DOMAIN processing_status THEN processing_status[f].status ELSE "404"

\* C25: every upload that was answered with a file_id leads to the status
\* "completed" or "error", whatever fails in model loading or in a stage.
C25_EveryUploadSettles ==
  \A f \in UploadIds :
    (uploads[f].pc = "returned") ~> (StatusOf(f) \in {"completed", "error"})

\* the Whisper model could not be loaded: the thread has ended and the status
\* is "processing" for good
C25_EndedWhileProcessing ==
  \E f \in UploadIds :
    /\ uploads[f].pc = "returned"
    /\ workers[f].pc = "ended"
    /\ runs[f].steps = <<[stage |-> "load_model", ok |-> FALSE]>>
    /\ StatusOf(f) = "processing"
    /\ f \notin DOMAIN processing_results

\* C26: a file_id whose status is "completed" has a stored result, the one
\* process_file returned, and the result query the client makes after it saw
\* "completed" is never answered 404.
C26_CompletedHasResult ==
  \A f \in UploadIds :
    /\ StatusOf(f) = "completed" =>
         /\ f \in DOMAIN processing_results
         /\ processing_results[f] = runs[f].results
    /\ seen[f].result # "404"

\* the client saw "completed" and got the result while the thread was still
\* before its clean-up
C26_Witness ==
  \E f \in UploadIds :
    /\ workers[f].pc = "cleanup"
    /\ seen[f].status = "completed"
    /\ seen[f].result = "200"

\* C27: after the upload was answered with a file_id, no status query for it
\* is answered 404.
C27_StatusAlwaysFound ==
  \A f \in UploadIds : seen[f].status # "404"

\* the upload was answered, the thread was started and has not yet run its
\* first statement: the status query is answered 404
C27_NotFoundAfterUpload ==
  \E f \in UploadIds :
    /\ uploads[f].pc = "returned"
    /\ workers[f].pc = "begin"
    /\ seen[f].status = "404"

=============================================================================
